---- MODULE Spec2Model ----
(***************************************************************************)
(* A model of the Game Boy core of zeroview/gb-web.                        *)
(*                                                                         *)
(* The machine is modelled per subsystem.  Every subsystem has its own     *)
(* specification over the shared variables:                                *)
(*   SpecTimer  the timer (core/src/timer.rs) as the CPU drives it          *)
(*   SpecExec   one instruction of CPU::execute (src/cpu.rs)                *)
(*   SpecCpu    the interrupt check of CPU::execute (src/cpu/interrupts.rs) *)
(*   SpecMbc    the cartridge controller (core/src/memory.rs)               *)
(*   SpecLoad   Memory::new on a ROM image (core/src/memory.rs)             *)
(*   SpecRam    Memory::set_ram on a loaded cartridge (core/src/memory.rs)  *)
(*   SpecBus    CPU::write and CPU::read for video RAM, OAM, work RAM and   *)
(*              high RAM (core/src/cpu/readwrite.rs, both ppu.rs)           *)
(*   SpecApu    register writes and T-cycles of the APU (core/src/apu.rs)   *)
(*   SpecLength the length timer of a triggered channel (core/src/apu.rs)   *)
(*   SpecLfsr   the LFSR of the noise channel (core/src/apu.rs)             *)
(*   SpecPpu    T-cycles and register writes of the PPU (core/src/ppu.rs)   *)
(*   SpecSprites the sprite selection of a scanline (core/src/ppu.rs)       *)
(*   SpecDma    the OAM DMA transfer (core/src/cpu/readwrite.rs)            *)
(*   SpecInput  the joypad register (src/cpu/input.rs)                      *)
(*   SpecRun    CPU::run and its loop of instructions (core/src/cpu.rs)     *)
(*   SpecSequencer the timer and the APU in a T-cycle (src/cpu.rs)          *)
(*   SpecWave   the samples of the wave channel (core/src/apu.rs)           *)
(*   SpecFrame  two whole frames of the PPU (core/src/ppu.rs)               *)
(*   SpecTick   the PPU, the timer and the APU in a T-cycle (src/cpu.rs)     *)
(*   SpecAudio  the ring of samples between the APU and the audio thread    *)
(*              (core/src/apu.rs, wasm/src/audio.rs)                        *)
(* Bytes and words keep their width: every 8-bit result is taken % 256,    *)
(* every 16-bit result % 65536.                                            *)
(***************************************************************************)
EXTENDS Integers, Sequences, FiniteSets, TLC

VARIABLES
    timer,      \* the Timer struct (core/src/timer.rs:15-28)
    istate,     \* the InterruptState struct (src/cpu/interrupts.rs:17-24)
    tcyc,       \* T-cycles the timer has been cycled in this run
    twrites,    \* bus writes the timer has received in this run
    tobs,       \* observation of the last timer operation (not program state)
    image,      \* a ROM image handed to Memory::new: its length and header bytes
    loaded,     \* what Memory::new returned for the image
    mbc,        \* the MBC struct (core/src/memory.rs:183-195)
    mobs,       \* observation of the last cartridge operation (not program state)
    cpu,        \* the CPU struct but for its devices (src/cpu.rs:27-36): registers,
                \* halt, work and high RAM, and where execute() stands
    cobs,       \* observation of the last CPU step (not program state)
    ppu,        \* the PPU struct (core/src/ppu.rs:171-210)
    pobs,       \* observation of the last PPU operation (not program state)
    apu,        \* the APU struct (core/src/apu.rs)
    aobs        \* observation of the last APU operation (not program state)

timerVars == <<timer, tcyc, twrites, tobs>>
mbcVars == <<image, loaded, mbc, mobs>>
cpuVars == <<cpu, cobs>>
ppuVars == <<ppu, pobs>>
apuVars == <<apu, aobs>>
vars ==
    <<timer, istate, tcyc, twrites, tobs, image, loaded, mbc, mobs, cpu, cobs,
      ppu, pobs, apu, aobs>>

\* the value of the variables of a subsystem a specification leaves out
Idle == [op |-> "idle"]
IdleTimer == timer = Idle /\ tcyc = 0 /\ twrites = 0 /\ tobs = Idle
IdleMbc == image = Idle /\ loaded = Idle /\ mbc = Idle /\ mobs = Idle
IdleCpu == cpu = Idle /\ cobs = Idle
IdlePpu == ppu = Idle /\ pobs = Idle
IdleApu == apu = Idle /\ aobs = Idle

(***************************************************************************)
(* Bit arithmetic on naturals.                                             *)
(***************************************************************************)
RECURSIVE Pow2(_)
Pow2(n) == IF n = 0 THEN 1 ELSE 2 * Pow2(n - 1)

\* bit i of x
Bit(x, i) == (x \div Pow2(i)) % 2

RECURSIVE BitAnd(_, _)
BitAnd(x, y) ==
    IF x = 0 \/ y = 0 THEN 0
    ELSE (x % 2) * (y % 2) + 2 * BitAnd(x \div 2, y \div 2)

RECURSIVE BitOr(_, _)
BitOr(x, y) ==
    IF x = 0 THEN y
    ELSE IF y = 0 THEN x
    ELSE (IF x % 2 = 1 \/ y % 2 = 1 THEN 1 ELSE 0) + 2 * BitOr(x \div 2, y \div 2)

\* x with the bits of mask cleared
BitClear(x, mask) == x - BitAnd(x, mask)

BitXor(x, y) == BitOr(x, y) - BitAnd(x, y)

(***************************************************************************)
(* Interrupt flags (src/cpu/interrupts.rs:6-14) and the interrupt state.   *)
(***************************************************************************)
VBLANK == 1
LCD == 2
TIMER == 4
SERIAL == 8
JOYPAD == 16

\* InterruptFlag::from_bits_truncate
InterruptFlag_truncate(value) == value % 32

InterruptState_new == [ime |-> FALSE, ie |-> 0, iflag |-> 0]

\* CPU::request_interrupt: OR the flag into IF
request_interrupt(is, interrupt) ==
    [is EXCEPT !.iflag = BitOr(is.iflag, interrupt)]

(***************************************************************************)
(* The timer.                                                              *)
(***************************************************************************)
Timer_new ==
    [div |-> 0, tima |-> 0, tma |-> 0, control |-> 0, enabled |-> FALSE,
     div_bit |-> 9, previous_and |-> FALSE, request_interrupt |-> FALSE,
     overflow_delay |-> 0]

\* Timer::cycle: one T-cycle
Timer_cycle(t) ==
    LET reload == t.overflow_delay = 0
        tima1 == IF reload THEN t.tma ELSE t.tima
        od1 == IF t.overflow_delay >= 0 THEN t.overflow_delay - 1
               ELSE t.overflow_delay
        div1 == (t.div + 1) % 65536
        and == t.enabled /\ Bit(div1, t.div_bit) > 0
        inc == ~and /\ t.previous_and
        overflow == inc /\ tima1 = 255
    IN  [t EXCEPT !.request_interrupt = reload,
                  !.tima = IF inc THEN (tima1 + 1) % 256 ELSE tima1,
                  !.overflow_delay = IF overflow THEN 3 ELSE od1,
                  !.div = div1,
                  !.previous_and = and]

\* Timer::mem_read
Timer_mem_read(t, address) ==
    CASE address = \hFF04 -> t.div \div 256
      [] address = \hFF05 -> t.tima
      [] address = \hFF06 -> t.tma
      [] address = \hFF07 -> t.control

\* the DIV arm of a mem_write that clears only the byte the program can see
Timer_write_div_high_only(t) == [t EXCEPT !.div = t.div % 256]

\* the 0xFF04 arm of Timer::mem_write
Timer_write_div(t) == [t EXCEPT !.div = 0]

\* the div_bit match with the arms of selects 1 and 2 exchanged
Timer_div_bit_swapped(control) ==
    CASE control % 4 = 0 -> 9
      [] control % 4 = 1 -> 5
      [] control % 4 = 2 -> 3
      [] control % 4 = 3 -> 7

\* the div_bit match of Timer::mem_write
Timer_div_bit(control) ==
    CASE control % 4 = 0 -> 9
      [] control % 4 = 1 -> 3
      [] control % 4 = 2 -> 5
      [] control % 4 = 3 -> 7

\* a Timer::mem_write whose write of TIMA leaves the countdown running
Timer_mem_write_countdown_kept(t, address, value) ==
    CASE address = \hFF04 -> Timer_write_div(t)
      [] address = \hFF05 -> [t EXCEPT !.tima = value]
      [] address = \hFF06 -> [t EXCEPT !.tma = value]
      [] address = \hFF07 ->
            LET control == value % 8
            IN  [t EXCEPT !.control = control,
                          !.enabled = Bit(control, 2) = 1,
                          !.div_bit = Timer_div_bit(control)]

\* Timer::mem_write
Timer_mem_write(t, address, value) ==
    CASE address = \hFF04 -> Timer_write_div(t)
      [] address = \hFF05 -> [t EXCEPT !.tima = value, !.overflow_delay = -1]
      [] address = \hFF06 -> [t EXCEPT !.tma = value]
      [] address = \hFF07 ->
            LET control == value % 8     \* TimerControl::from_bits_truncate
            IN  [t EXCEPT !.control = control,
                          !.enabled = Bit(control, 2) = 1,
                          !.div_bit = Timer_div_bit(control)]

(***************************************************************************)
(* The cartridge: header, Memory::new and the memory bank controller.      *)
(* A ROM image is its length and the three header bytes the code reads     *)
(* (0x0147 MBC type, 0x0148 ROM size, 0x0149 RAM size).  The bytes of the  *)
(* image are RomAt: every byte tells the bank it lies in and is never 0.   *)
(* Cartridge RAM is the set of <<offset, byte>> of its non-zero bytes.     *)
(***************************************************************************)
Min(a, b) == IF a < b THEN a ELSE b

RomAt(offset) == 1 + ((offset \div \h4000) % 255)

\* the match on header[0x47] of CartridgeInfo::from_header
MBCType_of(h47) ==
    CASE h47 \in \h01..\h03 -> "MBC1"
      [] h47 \in \h05..\h06 -> "MBC2"
      [] h47 \in \h0B..\h0D -> "MMM01"
      [] h47 \in \h0F..\h13 -> "MBC3"
      [] h47 \in \h19..\h1E -> "MBC5"
      [] h47 = \h20 -> "MBC6"
      [] h47 = \h22 -> "MBC7"
      [] h47 = \hFE -> "HuC3"
      [] h47 = \hFF -> "HuC1"
      [] OTHER -> "NoMBC"

\* CartridgeInfo::from_header
CartridgeInfo_from_header(h47, h48, h49) ==
    LET has_ram == h47 \in {\h02, \h03, \h0C, \h0D, \h10, \h12, \h13,
                            \h1A, \h1B, \h1D, \h1E, \h22}
    IN  [mbc |-> MBCType_of(h47),
         has_ram |-> has_ram,
         has_battery |-> h47 \in {\h03, \h06, \h0D, \h0F, \h10, \h13,
                                  \h1B, \h1E, \h22},
         \* 2u16.saturating_pow(1 + header[0x48])
         rom_banks |-> IF 1 + h48 <= 15 THEN Pow2(1 + h48) ELSE 65535,
         ram_banks |-> IF ~has_ram THEN 0
                       ELSE CASE h49 = 2 -> 1
                              [] h49 = 3 -> 4
                              [] h49 = 4 -> 16
                              [] h49 = 5 -> 8
                              [] OTHER -> 0]

SupportedMBC == {"NoMBC", "MBC1", "MBC3", "MBC5"}

\* MBC::init; the RAM length 0x2000 * ram_banks is computed in u16
MBC_init(rom_len, info) ==
    [kind |-> info.mbc, rom_banks |-> info.rom_banks,
     ram_banks |-> info.ram_banks, rom_len |-> rom_len,
     ram_len |-> (\h2000 * info.ram_banks) % 65536, ram |-> {},
     rom_bank |-> 1, ram_bank |-> 0, ram_enabled |-> FALSE,
     advanced_banking |-> FALSE]

\* the length check of Memory::new with the bound the slice needs
Memory_new_too_short_0150(len) == len < \h0150

\* the length check of Memory::new
Memory_new_too_short(len) == len < \h014F

\* Memory::new.  The slice rom[0x0100..=0x014F] panics on an image shorter
\* than 0x0150; the u16 product 0x2000 * ram_banks overflows for 8 and 16
\* banks, which panics in a build with overflow checks and wraps without.
Memory_new(img) ==
    IF Memory_new_too_short(img.len) THEN [tag |-> "NoHeader"]
    ELSE IF img.len < \h0150 THEN [tag |-> "panic_index_out_of_range"]
    ELSE LET info == CartridgeInfo_from_header(img.h47, img.h48, img.h49)
         IN  IF info.mbc \notin SupportedMBC
             THEN [tag |-> "UnimplementedMBC", kind |-> info.mbc]
             ELSE IF \h2000 * info.ram_banks >= 65536 /\ img.overflow_checks
             THEN [tag |-> "panic_overflow"]
             ELSE [tag |-> "Ok", info |-> info, mbc |-> MBC_init(img.len, info)]

\* MBC::read_rom: the byte at the offset, 0 past the end of the image
read_rom(m, address) == IF m.rom_len <= address THEN 0 ELSE RomAt(address)

RamCell(ram, offset) ==
    IF \E p \in ram : p[1] = offset
    THEN (CHOOSE p \in ram : p[1] = offset)[2]
    ELSE 0

\* MBC::read_ram
read_ram(m, address) ==
    IF m.ram_len <= address THEN 0 ELSE RamCell(m.ram, address)

\* MBC::write_ram
write_ram(m, address, value) ==
    IF m.ram_len <= address THEN m
    ELSE [m EXCEPT !.ram = {p \in m.ram : p[1] # address}
                           \cup (IF value = 0 THEN {} ELSE {<<address, value>>})]

\* the least k with 2^k >= n: (n as f32).log(2.0).ceil(), 0 for n <= 1
RECURSIVE CeilLog2(_)
CeilLog2(n) == IF n <= 1 THEN 0 ELSE 1 + CeilLog2((n + 1) \div 2)

\* MBC::mask_bank_number
mask_bank_number(number, bank_amount) ==
    LET bit_amount == Min(CeilLog2(bank_amount), 8)
    IN  IF bit_amount = 0 THEN 0 ELSE number % Pow2(bit_amount)

\* the RAM enable latch compared on the whole byte
ram_enable_whole_byte(value) == value = \h0A

\* the RAM enable latch of write_mbc1, write_mbc3 and write_mbc5
ram_enable(value) == (value % 16) = \h0A

\* the zero test of write_mbc1 made on the whole byte
mbc1_zero_adjust_whole_byte(value, masked) ==
    IF value = 0 THEN masked + 1 ELSE masked

\* write_mbc1: a value whose low five bits are 0 selects the next bank
mbc1_zero_adjust(value, masked) ==
    IF value % 32 = 0 THEN masked + 1 ELSE masked

\* the ROM offset read_mbc1 reads for an address in 0x0000..0x7FFF
mbc1_rom_offset(m, address) ==
    LET a1 == IF address >= \h4000
              THEN address - \h4000 + m.rom_bank * \h4000
              ELSE address
        high_address == m.ram_bank % (IF m.rom_banks <= 64 THEN 2 ELSE 4)
    IN  IF m.rom_banks > 32 /\ (a1 >= \h4000 \/ m.advanced_banking)
        THEN a1 + \h20 * high_address * \h4000
        ELSE a1

\* the ROM offset read_mbc3 reads for an address in 0x4000..0x7FFF
mbc3_rom_offset(m, address) == address + \h4000 * (m.rom_bank - 1)

\* the ROM offset read_mbc5 reads for an address in 0x4000..0x7FFF
\* (saturating_add_signed: not below 0)
mbc5_rom_offset(m, address) ==
    LET a == address + \h4000 * (m.rom_bank - 1)
    IN  IF a < 0 THEN 0 ELSE a

\* the RAM offset of a read of an address in 0xA000..0xBFFF
ram_read_offset(m, address) ==
    CASE m.kind = "NoMBC" -> address
      [] m.kind = "MBC1" ->
            (address - \hA000)
            + (IF m.advanced_banking
               THEN mask_bank_number(m.ram_bank % 256, m.ram_banks) * \h2000
               ELSE 0)
      [] OTHER -> (address - \hA000) + m.ram_bank * \h2000

\* the RAM offset of a write to an address in 0xA000..0xBFFF
ram_write_offset(m, address) ==
    CASE m.kind = "NoMBC" -> address
      [] m.kind = "MBC1" ->
            (address - \hA000)
            + (IF m.advanced_banking /\ m.ram_banks > 1
               THEN m.ram_bank * \h2000
               ELSE 0)
      [] OTHER -> (address - \hA000) + m.ram_bank * \h2000

\* the ROM offset a read of an address in 0x0000..0x7FFF uses
rom_offset(m, address) ==
    CASE m.kind = "MBC1" -> mbc1_rom_offset(m, address)
      [] m.kind = "MBC3" /\ address >= \h4000 -> mbc3_rom_offset(m, address)
      [] m.kind = "MBC5" /\ address >= \h4000 -> mbc5_rom_offset(m, address)
      [] OTHER -> address

\* read_mbc3 and read_mbc5 index the image unchecked below 0x4000
\* (self.rom[address]): past the end of the image the index panics
MBC_read_panics(m, address) ==
    /\ address \in \h0000..\h3FFF
    /\ m.kind \in {"MBC3", "MBC5"}
    /\ m.rom_len <= address

\* MBC::read (read_nombc, read_mbc1, read_mbc3, read_mbc5)
MBC_read(m, address) ==
    CASE MBC_read_panics(m, address) -> "panic_index_out_of_range"
      [] address \in \h0000..\h3FFF /\ m.kind \in {"MBC3", "MBC5"} ->
            RomAt(address)
      [] address \in \h0000..\h7FFF -> read_rom(m, rom_offset(m, address))
      [] address \in \hA000..\hBFFF ->
            IF m.kind # "NoMBC" /\ ~m.ram_enabled THEN \hFF
            ELSE read_ram(m, ram_read_offset(m, address))
      [] OTHER -> \hFF

\* write_nombc
write_nombc(m, address, value) ==
    IF address \in \hA000..\hBFFF
    THEN write_ram(m, ram_write_offset(m, address), value)
    ELSE m

\* the write to cartridge RAM of write_mbc1, write_mbc3 and write_mbc5
write_banked_ram(m, address, value) ==
    IF ~m.ram_enabled THEN m
    ELSE write_ram(m, ram_write_offset(m, address), value)

\* write_mbc1
write_mbc1(m, address, value) ==
    CASE address \in \h0000..\h1FFF ->
            [m EXCEPT !.ram_enabled = ram_enable(value)]
      [] address \in \h2000..\h3FFF ->
            [m EXCEPT !.rom_bank =
                mbc1_zero_adjust(value,
                    mask_bank_number(value, Min(m.rom_banks, 32)))]
      [] address \in \h4000..\h5FFF -> [m EXCEPT !.ram_bank = value % 4]
      [] address \in \h6000..\h7FFF ->
            [m EXCEPT !.advanced_banking = (value % 2 = 1)]
      [] address \in \hA000..\hBFFF -> write_banked_ram(m, address, value)
      [] OTHER -> m

\* the RAM bank register of write_mbc3 and write_mbc5
write_ram_bank(m, value) ==
    IF m.ram_banks # 0
    THEN [m EXCEPT !.ram_bank = mask_bank_number(value, m.ram_banks)]
    ELSE m

\* a write_mbc3 that stores a masked bank number of 0 as it is
write_mbc3_zero_kept(m, address, value) ==
    CASE address \in \h0000..\h1FFF ->
            [m EXCEPT !.ram_enabled = ram_enable(value)]
      [] address \in \h2000..\h3FFF ->
            [m EXCEPT !.rom_bank = mask_bank_number(value, m.rom_banks)]
      [] address \in \h4000..\h5FFF -> write_ram_bank(m, value)
      [] address \in \hA000..\hBFFF -> write_banked_ram(m, address, value)
      [] OTHER -> m

\* write_mbc3
write_mbc3(m, address, value) ==
    CASE address \in \h0000..\h1FFF ->
            [m EXCEPT !.ram_enabled = ram_enable(value)]
      [] address \in \h2000..\h3FFF ->
            LET masked == mask_bank_number(value, m.rom_banks)
            IN  [m EXCEPT !.rom_bank = IF masked = 0 THEN 1 ELSE masked]
      [] address \in \h4000..\h5FFF -> write_ram_bank(m, value)
      [] address \in \hA000..\hBFFF -> write_banked_ram(m, address, value)
      [] OTHER -> m

\* write_mbc5
write_mbc5(m, address, value) ==
    CASE address \in \h0000..\h1FFF ->
            [m EXCEPT !.ram_enabled = ram_enable(value)]
      [] address \in \h2000..\h2FFF ->
            [m EXCEPT !.rom_bank = mask_bank_number(value, m.rom_banks)]
      [] address \in \h3000..\h3FFF ->
            [m EXCEPT !.rom_bank = BitOr(m.rom_bank, (value % 2) * 256)]
      [] address \in \h4000..\h5FFF -> write_ram_bank(m, value)
      [] address \in \hA000..\hBFFF -> write_banked_ram(m, address, value)
      [] OTHER -> m

\* MBC::write
MBC_write(m, address, value) ==
    CASE m.kind = "NoMBC" -> write_nombc(m, address, value)
      [] m.kind = "MBC1" -> write_mbc1(m, address, value)
      [] m.kind = "MBC3" -> write_mbc3(m, address, value)
      [] m.kind = "MBC5" -> write_mbc5(m, address, value)

(***************************************************************************)
(* SpecTimer: the timer as the CPU drives it.  The CPU cycles the system   *)
(* four T-cycles per M-cycle (src/cpu.rs:53-71) and accesses the bus only  *)
(* between M-cycles, so a register write meets the timer only at a         *)
(* multiple of four T-cycles.                                              *)
(***************************************************************************)
MaxTCycles == 76
MaxTimerWrites == 3

\* A timer that has run for a while with no write to it: the divider
\* free-runs, the reload armed by Timer::new (overflow_delay = 0) has happened
\* in the first T-cycle, and the program has cleared IF since.
AgedDividers == {\h1FFC, \hFFFC}
Timer_aged(d) ==
    [Timer_new EXCEPT !.div = d, !.overflow_delay = -1]

TimerAddresses == {\hFF04, \hFF05, \hFF06, \hFF07}
TimerWriteValues == {\h00, \h05, \hFE}

\* the T-cycle from t to t1 wrapped TIMA from 0xFF to 0x00 and armed the
\* countdown: no other T-cycle leaves overflow_delay at 3
TimaWrapped(t, t1) == t1.overflow_delay = 3 /\ t.overflow_delay # 4

\* no scenario of timer start is being followed
NoStart == [since |-> -1, phase |-> 0]

InitTimer ==
    /\ \/ /\ timer = Timer_new
          /\ istate = InterruptState_new
       \/ /\ \E d \in AgedDividers : timer = Timer_aged(d)
          /\ istate = InterruptState_new
    /\ tcyc = 0
    /\ twrites = 0
    /\ tobs = [op |-> "new", address |-> 0, value |-> 0, div_before |-> 0,
               start |-> NoStart, armed |-> FALSE, cancelled |-> FALSE]
    /\ IdleMbc
    /\ IdleCpu
    /\ IdlePpu
    /\ IdleApu

\* The observation of a write: a write of TAC that enables a stopped timer
\* holding TIMA = TMA = 0xFE starts the count of T-cycles; any other write
\* ends it.
StartAfterWrite(t, address, value) ==
    IF /\ address = \hFF07 /\ value = 5
       /\ ~t.enabled /\ t.tima = 254 /\ t.tma = 254
    THEN [since |-> 0, phase |-> t.div % 16]
    ELSE NoStart

\* a bus write to one of 0xFF04..0xFF07 (core/src/cpu/readwrite.rs:52)
TimerWrite(address, value) ==
    /\ tcyc % 4 = 0
    /\ twrites < MaxTimerWrites
    /\ twrites' = twrites + 1
    /\ timer' = Timer_mem_write(timer, address, value)
    /\ tobs' = [op |-> "write", address |-> address, value |-> value,
                div_before |-> IF address = \hFF04 THEN timer.div ELSE 0,
                start |-> StartAfterWrite(timer, address, value),
                armed |-> tobs.armed /\ address # \hFF05,
                cancelled |-> \/ tobs.cancelled
                              \/ /\ address = \hFF05
                                 /\ tobs.armed /\ timer.overflow_delay >= 0]
    /\ UNCHANGED <<istate, tcyc, mbcVars, cpuVars, ppuVars, apuVars>>

\* the timer's part of one T-cycle of CPU::cycle (src/cpu.rs:63-67)
TimerCycle ==
    /\ tcyc < MaxTCycles
    /\ LET t1 == Timer_cycle(timer)
       IN  /\ timer' = t1
           /\ istate' = IF t1.request_interrupt
                        THEN request_interrupt(istate, TIMER)
                        ELSE istate
    /\ tcyc' = tcyc + 1
    /\ UNCHANGED <<twrites, mbcVars, cpuVars, ppuVars, apuVars>>
    /\ tobs' = [op |-> "cycle", address |-> 0, value |-> 0, div_before |-> 0,
                start |-> IF tobs.start.since >= 0
                          THEN [tobs.start EXCEPT !.since = @ + 1]
                          ELSE tobs.start,
                armed |-> TimaWrapped(timer, timer')
                          \/ (tobs.armed /\ timer'.overflow_delay >= 0),
                cancelled |-> tobs.cancelled /\ ~TimaWrapped(timer, timer')]

NextTimer ==
    \/ \E address \in TimerAddresses, value \in TimerWriteValues :
          TimerWrite(address, value)
    \/ TimerCycle

SpecTimer == InitTimer /\ [][NextTimer]_vars

(***************************************************************************)
(* The CPU.  A machine c is the CPU struct as the interpreter threads it   *)
(* through one step: reg (Registers), halt, is (InterruptState), timer,    *)
(* mbc, mem (work and high RAM: the set of <<address, byte>> of the        *)
(* non-zero bytes), cycles (the M-cycles handed to CPU::cycle so far),     *)
(* incpc (increment_pc of execute), raised (the interrupts requested by    *)
(* the timer during the step) and fault:                                   *)
(*   "panic"     a panic!() of the interpreter                             *)
(*   "overflow"  a checked u16 operation overflowed: the build with        *)
(*               overflow checks panics, the build without wraps           *)
(*   "device"    the step touched the PPU, the APU or the joypad register, *)
(*               which have no part in this machine                        *)
(* A machine with a fault takes no further step.                           *)
(***************************************************************************)
ZERO == 128
SUBTRACT == 64
HALF_CARRY == 32
CARRY == 16

\* FlagReg::intersects for a single flag
intersects(f, flag) == (f \div flag) % 2 = 1

\* FlagReg::set for a single flag
FlagReg_set(f, flag, on) ==
    IF on THEN (IF intersects(f, flag) THEN f ELSE f + flag)
    ELSE (IF intersects(f, flag) THEN f - flag ELSE f)

\* FlagReg::from_bits_truncate
FlagReg_truncate(value) == value - (value % 16)

\* Registers::read_16
Registers_read_16(reg, r) ==
    CASE r = "af" -> reg.a * 256 + reg.f
      [] r = "bc" -> reg.b * 256 + reg.c
      [] r = "de" -> reg.d * 256 + reg.e
      [] r = "hl" -> reg.h * 256 + reg.l
      [] r = "sp" -> reg.sp

\* Registers::write_16
Registers_write_16(reg, r, value) ==
    CASE r = "af" -> [reg EXCEPT !.a = value \div 256,
                                 !.f = FlagReg_truncate(value % 256)]
      [] r = "bc" -> [reg EXCEPT !.b = value \div 256, !.c = value % 256]
      [] r = "de" -> [reg EXCEPT !.d = value \div 256, !.e = value % 256]
      [] r = "hl" -> [reg EXCEPT !.h = value \div 256, !.l = value % 256]
      [] r = "sp" -> [reg EXCEPT !.sp = value]

\* the first fault of a step stays
Fault(c, tag) == IF c.fault = "none" THEN [c EXCEPT !.fault = tag] ELSE c

\* the addresses CPU::read and CPU::write hand to the PPU, the APU and the
\* joypad register
IsDevice(address) ==
    \/ address \in \h8000..\h9FFF \/ address \in \hFE00..\hFE9F
    \/ address \in \hFF40..\hFF4B \/ address \in \hFF10..\hFF3F
    \/ address = \hFF00

\* Memory::mem_read
Memory_mem_read(c, address) ==
    CASE address \in \h0000..\h7FFF \/ address \in \hA000..\hBFFF ->
            MBC_read(c.mbc, address)
      [] address \in \hC000..\hDFFF -> RamCell(c.mem, address)
      [] address \in \hE000..\hFDFF -> RamCell(c.mem, address - \h2000)
      [] address \in \hFF80..\hFFFE -> RamCell(c.mem, address)
      [] OTHER -> 0

\* Memory::mem_write
Memory_mem_write(c, address, value) ==
    LET store(a) ==
            [c EXCEPT !.mem = {p \in c.mem : p[1] # a}
                              \cup (IF value = 0 THEN {} ELSE {<<a, value>>})]
    IN  CASE address \in \h0000..\h7FFF \/ address \in \hA000..\hBFFF ->
                [c EXCEPT !.mbc = MBC_write(c.mbc, address, value)]
          [] address \in \hC000..\hDFFF -> store(address)
          [] address \in \hE000..\hFDFF -> store(address - \h2000)
          [] address \in \hFF80..\hFFFE -> store(address)
          [] OTHER -> c

\* CPU::read: the byte, 0xFF standing for the byte of a device
CPU_read(c, address) ==
    CASE \/ address \in \h0000..\h7FFF \/ address \in \hA000..\hFDFF
         \/ address \in \hFF80..\hFFFE -> Memory_mem_read(c, address)
      [] address \in \hFF04..\hFF07 -> Timer_mem_read(c.timer, address)
      [] address = \hFF0F -> c.is.iflag
      [] address = \hFFFF -> c.is.ie
      [] OTHER -> \hFF

\* a read of the bus by the interpreter: the byte and the machine
BusLoad(c, address) ==
    [c |-> IF IsDevice(address) THEN Fault(c, "device") ELSE c,
     v |-> CPU_read(c, address)]

\* CPU::read_16; address + 1 is a checked addition
CPU_read_16(c, address) ==
    IF address = \hFFFF
    THEN [c |-> Fault(c, "overflow"), v |-> 0]
    ELSE LET word(lo, hi) == [c |-> hi.c, v |-> hi.v * 256 + lo.v]
             high(lo) == word(lo, BusLoad(lo.c, address + 1))
         IN  high(BusLoad(c, address))

\* CPU::write
CPU_write(c, address, value) ==
    CASE IsDevice(address) -> Fault(c, "device")
      [] \/ address \in \h0000..\h7FFF \/ address \in \hA000..\hFDFF
         \/ address \in \hFF80..\hFFFE -> Memory_mem_write(c, address, value)
      [] address \in \hFF04..\hFF07 ->
            [c EXCEPT !.timer = Timer_mem_write(c.timer, address, value)]
      [] address = \hFF0F ->
            [c EXCEPT !.is.iflag = InterruptFlag_truncate(value)]
      [] address = \hFFFF ->
            [c EXCEPT !.is.ie = InterruptFlag_truncate(value)]
      [] OTHER -> c

\* the timer's part of n T-cycles of CPU::cycle
RECURSIVE T_cycles(_, _)
T_cycles(c, n) ==
    IF n = 0 THEN c
    ELSE LET tick(t) ==
                T_cycles(
                    [c EXCEPT !.timer = t,
                              !.is = IF t.request_interrupt
                                     THEN request_interrupt(c.is, TIMER)
                                     ELSE c.is,
                              !.raised = IF t.request_interrupt
                                         THEN BitOr(c.raised, TIMER)
                                         ELSE c.raised],
                    n - 1)
         IN  tick(Timer_cycle(c.timer))

\* CPU::cycle: the system runs 4 T-cycles for every M-cycle.  The requests
\* of the PPU come as RequestInterrupt steps.
CPU_cycle(c, cycles) == [T_cycles(c, 4 * cycles) EXCEPT !.cycles = @ + cycles]

\* CPU::read_operand
read_operand(c) ==
    LET operand(c2) == BusLoad(c2, c2.reg.pc)
    IN  operand([CPU_cycle(c, 1) EXCEPT !.reg.pc = (@ + 1) % 65536])

\* CPU::read_operand_16; pc - 1 is a checked subtraction
read_operand_16(c) ==
    LET operand(c2) ==
            IF c2.reg.pc = 0
            THEN [c |-> Fault(c2, "overflow"), v |-> 0]
            ELSE CPU_read_16(c2, c2.reg.pc - 1)
    IN  operand([CPU_cycle(c, 2) EXCEPT !.reg.pc = (@ + 2) % 65536])

\* CPU::pop
pop(c) ==
    LET release(w) ==
            [c |-> [w.c EXCEPT !.reg.sp = (@ + 2) % 65536], v |-> w.v]
        top(c1) == release(CPU_read_16(c1, c1.reg.sp))
    IN  top(CPU_cycle(c, 2))

\* CPU::push
push(c, value) ==
    LET store(c2) ==
            CPU_write(CPU_write(c2, (c2.reg.sp + 1) % 65536, value \div 256),
                      c2.reg.sp, value % 256)
    IN  store([CPU_cycle(c, 2) EXCEPT !.reg.sp = (@ - 2) % 65536])

\* CPU::rotate: the result and the flags
rotate(f, val, left, through_carry) ==
    LET carry == IF left THEN val >= 128 ELSE val % 2 = 1
        shifted == IF left THEN (val * 2) % 256 ELSE val \div 2
        overflow_bit == IF left THEN 1 ELSE 128
        fill == IF through_carry THEN intersects(f, CARRY) ELSE carry
    IN  [res |-> IF fill THEN shifted + overflow_bit ELSE shifted,
         f |-> IF carry THEN CARRY ELSE 0]

\* the flag byte with the four flags as given
Flags(z, n, h, cy) ==
    (IF z THEN ZERO ELSE 0) + (IF n THEN SUBTRACT ELSE 0)
    + (IF h THEN HALF_CARRY ELSE 0) + (IF cy THEN CARRY ELSE 0)

\* CPU::add_a
add_a(reg, val, with_carry) ==
    LET carry_val == IF with_carry /\ intersects(reg.f, CARRY) THEN 1 ELSE 0
        added_val == (val + carry_val) % 256
        add_carry == val + carry_val > 255
        res == (reg.a + added_val) % 256
        carry == reg.a + added_val > 255
        half == ((reg.a % 16) + (val % 16) + carry_val) \div 16 = 1
    IN  [reg EXCEPT !.a = res,
                    !.f = Flags(res = 0, FALSE, half, carry \/ add_carry)]

\* CPU::sub_a
sub_a(reg, val, with_carry, set_a) ==
    LET carry_val == IF with_carry /\ intersects(reg.f, CARRY) THEN 1 ELSE 0
        added_val == (val + carry_val) % 256
        add_carry == val + carry_val > 255
        res == (reg.a - added_val) % 256
        carry == reg.a < added_val
        half == Bit(((reg.a % 16) - (val % 16) - carry_val) % 256, 4) = 1
    IN  [reg EXCEPT !.a = IF set_a THEN res ELSE reg.a,
                    !.f = Flags(res = 0, TRUE, half, carry \/ add_carry)]

\* CPU::and_a
and_a(reg, val) ==
    LET res == BitAnd(reg.a, val)
    IN  [reg EXCEPT !.a = res, !.f = Flags(res = 0, FALSE, TRUE, FALSE)]

\* CPU::xor_a
xor_a(reg, val) ==
    LET res == BitXor(reg.a, val)
    IN  [reg EXCEPT !.a = res, !.f = Flags(res = 0, FALSE, FALSE, FALSE)]

\* CPU::or_a
or_a(reg, val) ==
    LET res == BitOr(reg.a, val)
    IN  [reg EXCEPT !.a = res, !.f = Flags(res = 0, FALSE, FALSE, FALSE)]

\* the DAA arm of execute
daa(reg) ==
    LET n == intersects(reg.f, SUBTRACT)
        h == intersects(reg.f, HALF_CARRY)
        cy == intersects(reg.f, CARRY)
        low == IF n THEN h ELSE h \/ reg.a % 16 > 9
        high == IF n THEN cy ELSE cy \/ reg.a > 153
        adj == (IF low THEN 6 ELSE 0) + (IF high THEN 96 ELSE 0)
        res == IF n THEN (reg.a - adj) % 256 ELSE (reg.a + adj) % 256
    IN  [reg EXCEPT !.a = res, !.f = Flags(res = 0, n, FALSE, high)]

\* CPU::get_opcode_reg: "none" for None
get_opcode_reg(opcode) ==
    LET nibble == (opcode % 16) % 8
    IN  CASE nibble = 0 -> "b"
          [] nibble = 1 -> "c"
          [] nibble = 2 -> "d"
          [] nibble = 3 -> "e"
          [] nibble = 4 -> "h"
          [] nibble = 5 -> "l"
          [] nibble = 7 -> "a"
          [] OTHER -> "none"

\* CPU::get_opcode_reg16 followed by unwrap_or(default)
get_opcode_reg16(opcode, default) ==
    LET nibble == (opcode % 256) \div 16
    IN  CASE nibble = 0 -> "bc"
          [] nibble = 1 -> "de"
          [] nibble = 2 -> "hl"
          [] OTHER -> default

\* CPU::get_opcode_condition
get_opcode_condition(f, opcode) ==
    IF opcode \div 16 = 12 THEN intersects(f, ZERO) ELSE intersects(f, CARRY)

\* a wake-up that asks for IME as well
wake_from_halt_needs_ime(is, halt) ==
    IF BitAnd(is.ie, is.iflag) > 0 /\ is.ime THEN FALSE ELSE halt

\* check_for_interrupt: a request that is enabled ends halt mode
wake_from_halt(is, halt) ==
    IF BitAnd(is.ie, is.iflag) > 0 THEN FALSE ELSE halt

\* the chain of check_for_interrupt taken from JOYPAD down
pending_interrupt_reversed(requests) ==
    CASE intersects(requests, JOYPAD) -> JOYPAD
      [] intersects(requests, SERIAL) -> SERIAL
      [] intersects(requests, TIMER) -> TIMER
      [] intersects(requests, LCD) -> LCD
      [] OTHER -> VBLANK

\* the if-else chain of check_for_interrupt: the request that is served
pending_interrupt(requests) ==
    CASE intersects(requests, VBLANK) -> VBLANK
      [] intersects(requests, LCD) -> LCD
      [] intersects(requests, TIMER) -> TIMER
      [] intersects(requests, SERIAL) -> SERIAL
      [] OTHER -> JOYPAD

\* the match of run_interrupt
interrupt_vector(interrupt) ==
    CASE interrupt = VBLANK -> \h40
      [] interrupt = LCD -> \h48
      [] interrupt = TIMER -> \h50
      [] interrupt = SERIAL -> \h58
      [] interrupt = JOYPAD -> \h60

\* CPU::run_interrupt
run_interrupt(c, interrupt) ==
    LET vector(c2) ==
            CPU_cycle([push(c2, c2.reg.pc)
                         EXCEPT !.reg.pc = interrupt_vector(interrupt)], 1)
    IN  vector(CPU_cycle(
            [c EXCEPT !.is.iflag = BitClear(c.is.iflag, interrupt)], 2))

\* CPU::check_for_interrupt
check_for_interrupt(c) ==
    LET interrupt_requests == BitAnd(c.is.ie, c.is.iflag)
        c1 == [c EXCEPT !.halt = wake_from_halt(c.is, c.halt)]
    IN  IF interrupt_requests > 0 /\ c.is.ime
        THEN [run_interrupt(c1, pending_interrupt(interrupt_requests))
                EXCEPT !.is.ime = FALSE]
        ELSE c1

\* a byte as i8
SignedByte(v) == IF v >= 128 THEN v - 256 ELSE v

\* the relative jump of the JR arms of execute
jump_relative(c, taken) ==
    LET jump(o) ==
            IF taken
            THEN CPU_cycle(
                    [o.c EXCEPT !.reg.pc = (@ + SignedByte(o.v)) % 65536], 1)
            ELSE o.c
    IN  jump(read_operand(c))

\* the RLCA, RLA, RRCA, RRA arms of execute
rotate_a(c, left, through_carry) ==
    LET r == rotate(c.reg.f, c.reg.a, left, through_carry)
    IN  [c EXCEPT !.reg.a = r.res, !.reg.f = r.f]

\* the INC and DEC arms of execute for an 8-bit register or (HL)
inc_dec_r8(c, opcode) ==
    LET nibble == opcode % 16
        offset == IF nibble = 4 \/ nibble = 5 THEN 0 ELSE 1
        reg == get_opcode_reg(2 * (opcode \div 16) + offset)
        hl == Registers_read_16(c.reg, "hl")
        inc == nibble = 4 \/ nibble = 12
        val(v) == IF inc THEN (v + 1) % 256 ELSE (v - 1) % 256
        flags(f, v) ==
            FlagReg_set(
                FlagReg_set(FlagReg_set(f, SUBTRACT, ~inc), HALF_CARRY,
                            IF inc THEN v % 16 = 15 ELSE v % 16 = 0),
                ZERO, val(v) = 0)
        store(c1, v) ==
            IF reg # "none" THEN [c1 EXCEPT !.reg[reg] = val(v)]
            ELSE CPU_cycle(CPU_write(c1, hl, val(v)), 2)
        update(l) == store([l.c EXCEPT !.reg.f = flags(@, l.v)], l.v)
    IN  update(IF reg = "none" THEN BusLoad(c, hl)
               ELSE [c |-> c, v |-> c.reg[reg]])

\* the ADD HL,r16 arm of execute
add_hl(c, opcode) ==
    LET reg_val == Registers_read_16(c.reg, get_opcode_reg16(opcode, "sp"))
        val == Registers_read_16(c.reg, "hl")
        f1 == FlagReg_set(c.reg.f, SUBTRACT, FALSE)
        f2 == FlagReg_set(f1, HALF_CARRY,
                          (reg_val % 4096) + (val % 4096) >= 4096)
        f3 == FlagReg_set(f2, CARRY, val + reg_val > 65535)
        r1 == Registers_write_16(c.reg, "hl", (val + reg_val) % 65536)
    IN  CPU_cycle([c EXCEPT !.reg = [r1 EXCEPT !.f = f3]], 1)

\* the arm 0x00..=0x3F of execute
execute_00_3F(c, opcode) ==
    LET nibble == opcode % 16
        f == c.reg.f
        \* LD r16, d16
        ld_r16(o) ==
            [o.c EXCEPT !.reg = Registers_write_16(
                @, get_opcode_reg16(opcode, "sp"), o.v)]
        \* LD A, (r16)
        ld_a(l) == [l.c EXCEPT !.reg.a = l.v]
        \* LD r8, d8 and LD (HL), d8
        ld_r8(o, reg) ==
            IF reg # "none" THEN [o.c EXCEPT !.reg[reg] = o.v]
            ELSE CPU_cycle(CPU_write(o.c,
                    Registers_read_16(o.c.reg, "hl"), o.v), 1)
        \* LD (a16), SP; address + 1 is a checked addition
        ld_a16_high(o, c1) ==
            IF o.v = \hFFFF THEN Fault(c1, "overflow")
            ELSE CPU_write(c1, o.v + 1, c.reg.sp \div 256)
        ld_a16_sp(o) ==
            CPU_cycle(
                ld_a16_high(o, CPU_write(o.c, o.v, c.reg.sp % 256)), 2)
    IN  CASE nibble = 0 ->
                IF opcode = \h00 \/ opcode = \h10 THEN c
                ELSE jump_relative(c,
                        ~(\/ opcode = \h20 /\ intersects(f, ZERO)
                          \/ opcode = \h30 /\ intersects(f, CARRY)))
          [] nibble = 1 ->
                ld_r16(read_operand_16(c))
          [] nibble = 2 \/ nibble = 10 ->
                LET reg == get_opcode_reg16(opcode, "hl")
                    address == Registers_read_16(c.reg, reg)
                    c1 == IF nibble = 2 THEN CPU_write(c, address, c.reg.a)
                          ELSE ld_a(BusLoad(c, address))
                    step == CASE opcode = \h22 \/ opcode = \h2A -> 1
                              [] opcode = \h32 \/ opcode = \h3A -> -1
                              [] OTHER -> 0
                IN  CPU_cycle(
                        [c1 EXCEPT !.reg = Registers_write_16(@, reg,
                            (Registers_read_16(@, reg) + step) % 65536)], 1)
          [] nibble = 3 \/ nibble = 11 ->
                LET reg == get_opcode_reg16(opcode, "sp")
                    step == IF nibble = 3 THEN 1 ELSE -1
                IN  CPU_cycle(
                        [c EXCEPT !.reg = Registers_write_16(@, reg,
                            (Registers_read_16(@, reg) + step) % 65536)], 1)
          [] nibble \in {4, 5, 12, 13} -> inc_dec_r8(c, opcode)
          [] nibble = 6 \/ nibble = 14 ->
                ld_r8(read_operand(c),
                      get_opcode_reg(2 * (opcode \div 16)
                                     + (IF nibble = 6 THEN 0 ELSE 1)))
          [] nibble = 7 ->
                (CASE opcode = \h07 -> rotate_a(c, TRUE, FALSE)
                   [] opcode = \h17 -> rotate_a(c, TRUE, TRUE)
                   [] opcode = \h27 -> [c EXCEPT !.reg = daa(@)]
                   [] opcode = \h37 ->
                        [c EXCEPT !.reg.f =
                            Flags(intersects(f, ZERO), FALSE, FALSE, TRUE)])
          [] nibble = 8 ->
                IF opcode = \h08
                THEN ld_a16_sp(read_operand_16(c))
                ELSE jump_relative(c,
                        \/ opcode = \h18
                        \/ opcode = \h28 /\ intersects(f, ZERO)
                        \/ opcode = \h38 /\ intersects(f, CARRY))
          [] nibble = 9 -> add_hl(c, opcode)
          [] nibble = 15 ->
                (CASE opcode = \h0F -> rotate_a(c, FALSE, FALSE)
                   [] opcode = \h1F -> rotate_a(c, FALSE, TRUE)
                   [] opcode = \h2F ->
                        [c EXCEPT !.reg.a = 255 - c.reg.a,
                                  !.reg.f = Flags(intersects(f, ZERO), TRUE,
                                                  TRUE, intersects(f, CARRY))]
                   [] opcode = \h3F ->
                        [c EXCEPT !.reg.f =
                            Flags(intersects(f, ZERO), FALSE, FALSE,
                                  ~intersects(f, CARRY))])
          [] OTHER -> Fault(c, "panic")

\* the arm 0x40..=0x75 | 0x77..=0xBF of execute
execute_40_BF(c, opcode) ==
    LET reg == get_opcode_reg(opcode)
        apply(c1, val) ==
            CASE opcode \in \h40..\h47 -> [c1 EXCEPT !.reg.b = val]
              [] opcode \in \h48..\h4F -> [c1 EXCEPT !.reg.c = val]
              [] opcode \in \h50..\h57 -> [c1 EXCEPT !.reg.d = val]
              [] opcode \in \h58..\h5F -> [c1 EXCEPT !.reg.e = val]
              [] opcode \in \h60..\h67 -> [c1 EXCEPT !.reg.h = val]
              [] opcode \in \h68..\h6F -> [c1 EXCEPT !.reg.l = val]
              [] opcode \in \h70..\h77 ->
                    CPU_cycle(CPU_write(c1, Registers_read_16(c1.reg, "hl"),
                                        val), 1)
              [] opcode \in \h78..\h7F -> [c1 EXCEPT !.reg.a = val]
              [] opcode \in \h80..\h8F ->
                    [c1 EXCEPT !.reg = add_a(@, val, opcode >= \h88)]
              [] opcode \in \h90..\h9F ->
                    [c1 EXCEPT !.reg = sub_a(@, val, opcode >= \h98, TRUE)]
              [] opcode \in \hA0..\hA7 -> [c1 EXCEPT !.reg = and_a(@, val)]
              [] opcode \in \hA8..\hAF -> [c1 EXCEPT !.reg = xor_a(@, val)]
              [] opcode \in \hB0..\hB7 -> [c1 EXCEPT !.reg = or_a(@, val)]
              [] opcode \in \hB8..\hBF ->
                    [c1 EXCEPT !.reg = sub_a(@, val, FALSE, FALSE)]
              [] OTHER -> Fault(c1, "panic")
        at_hl(b) == apply(CPU_cycle(b.c, 1), b.v)
    IN  IF reg = "none"
        THEN at_hl(BusLoad(c, Registers_read_16(c.reg, "hl")))
        ELSE apply(c, c.reg[reg])

\* CPU::arithmetic: the opcodes that start with 0xCB
arithmetic(c) ==
    LET mask(opcode) == Pow2(((opcode - \h40) % \h40) \div 8)
        set_zero(rot) == [rot EXCEPT !.f = FlagReg_set(@, ZERO, rot.res = 0)]
        sla(r) == [r EXCEPT !.res = @ - (@ % 2)]
        sra(r, val) == [r EXCEPT !.res = (@ % 128) + (val - (val % 128))]
        srl(r) == [r EXCEPT !.res = @ % 128]
        shift(opcode, f, val) ==
            CASE opcode \in \h00..\h07 -> rotate(f, val, TRUE, FALSE)
              [] opcode \in \h08..\h0F -> rotate(f, val, FALSE, FALSE)
              [] opcode \in \h10..\h17 -> rotate(f, val, TRUE, TRUE)
              [] opcode \in \h18..\h1F -> rotate(f, val, FALSE, TRUE)
              [] opcode \in \h20..\h27 -> sla(rotate(f, val, TRUE, FALSE))
              [] opcode \in \h28..\h2F ->
                    sra(rotate(f, val, FALSE, FALSE), val)
              [] opcode \in \h30..\h37 ->
                    [res |-> (val % 16) * 16 + val \div 16, f |-> 0]
              [] opcode \in \h38..\h3F -> srl(rotate(f, val, FALSE, FALSE))
        result(opcode, f, val) ==
            CASE opcode \in \h00..\h3F -> set_zero(shift(opcode, f, val))
              [] opcode \in \h80..\hBF ->
                    [res |-> BitClear(val, mask(opcode)), f |-> f]
              [] opcode \in \hC0..\hFF ->
                    [res |-> BitOr(val, mask(opcode)), f |-> f]
        store(c1, reg, out) ==
            IF reg # "none"
            THEN CPU_cycle([c1 EXCEPT !.reg.f = out.f,
                                      !.reg[reg] = out.res], 1)
            ELSE CPU_cycle(
                    CPU_write([c1 EXCEPT !.reg.f = out.f],
                              Registers_read_16(c1.reg, "hl"), out.res), 3)
        apply(opcode, reg, l) ==
            IF opcode \in \h40..\h7F
            THEN CPU_cycle(
                    [l.c EXCEPT !.reg.f =
                        Flags(BitAnd(l.v, mask(opcode)) = 0, FALSE, TRUE,
                              intersects(@, CARRY))],
                    IF reg = "none" THEN 2 ELSE 1)
            ELSE store(l.c, reg, result(opcode, l.c.reg.f, l.v))
        operand(o, reg) ==
            apply(o.v, reg,
                  IF reg = "none"
                  THEN BusLoad(o.c, Registers_read_16(o.c.reg, "hl"))
                  ELSE [c |-> o.c, v |-> o.c.reg[reg]])
        decode(o) == operand(o, get_opcode_reg(o.v))
    IN  decode(read_operand(c))

\* the arithmetic arms of execute with an 8-bit operand
alu_d8(reg, opcode, val) ==
    CASE opcode = \hC6 -> add_a(reg, val, FALSE)
      [] opcode = \hCE -> add_a(reg, val, TRUE)
      [] opcode = \hD6 -> sub_a(reg, val, FALSE, TRUE)
      [] opcode = \hDE -> sub_a(reg, val, TRUE, TRUE)
      [] opcode = \hE6 -> and_a(reg, val)
      [] opcode = \hEE -> xor_a(reg, val)
      [] opcode = \hF6 -> or_a(reg, val)
      [] opcode = \hFE -> sub_a(reg, val, FALSE, FALSE)
      [] OTHER -> reg

\* the return of the RET arms: pop the program counter, then cycle
return_from(c, cycles) ==
    LET jump(p) ==
            CPU_cycle([p.c EXCEPT !.incpc = FALSE, !.reg.pc = p.v], cycles)
    IN  jump(pop(c))

\* the call of the CALL and RST arms; pc + 1 is a checked addition
call_to(c, address) ==
    LET c1 == [c EXCEPT !.incpc = FALSE]
        c2 == IF c1.reg.pc = \hFFFF THEN Fault(c1, "overflow")
              ELSE push(c1, c1.reg.pc + 1)
    IN  CPU_cycle([c2 EXCEPT !.reg.pc = address], 1)

\* the arms 0x0 | 0x2 | 0x3 | 0xA of the arm 0xC0..=0xFF of execute
execute_C0_FF_0_2_3_A(c, opcode) ==
    LET nibble == opcode % 16
        condition == get_opcode_condition(c.reg.f, opcode)
        taken == CASE nibble = 2 -> ~condition
                   [] nibble = 3 -> TRUE
                   [] OTHER -> condition
        high(b) == [c |-> b.c, v |-> \hFF00 + b.v]
        ld_a(l) == [l.c EXCEPT !.reg.a = l.v]
        \* LD (a), A and LD A, (a) for the address o.v
        access(o) ==
            CPU_cycle(
                IF opcode \div 16 = 14 THEN CPU_write(o.c, o.v, o.c.reg.a)
                ELSE ld_a(BusLoad(o.c, o.v)), 1)
        \* JP cc, a16 and JP a16
        jump(o) ==
            IF taken
            THEN CPU_cycle([o.c EXCEPT !.incpc = FALSE, !.reg.pc = o.v], 1)
            ELSE o.c
    IN  IF opcode = \hF3 THEN [c EXCEPT !.is.ime = FALSE]
        ELSE IF opcode \div 16 >= 14
        THEN CASE nibble = 3 -> Fault(c, "panic")
               [] nibble = 0 -> access(high(read_operand(c)))
               [] nibble = 2 -> access([c |-> c, v |-> \hFF00 + c.reg.c])
               [] nibble = 10 -> access(read_operand_16(c))
        ELSE IF nibble = 0
        THEN CPU_cycle(IF ~condition THEN return_from(c, 1) ELSE c, 1)
        ELSE jump(read_operand_16(c))

\* the ADD SP and LD HL,SP arms of execute
add_sp(c, opcode) ==
    LET add(c1, sp, v) ==
            [c1 EXCEPT !.reg =
                [Registers_write_16(@, IF opcode = \hE8 THEN "sp" ELSE "hl",
                                    (sp + SignedByte(v)) % 65536)
                    EXCEPT !.f = Flags(FALSE, FALSE,
                                       (sp % 16) + (v % 16) >= 16,
                                       (sp % 256) + v >= 256)]]
        operand(o) ==
            add(CPU_cycle(o.c, IF opcode = \hE8 THEN 2 ELSE 1),
                o.c.reg.sp, o.v)
    IN  operand(read_operand(c))

\* the arm 0xC0..=0xFF of execute
execute_C0_FF(c, opcode) ==
    LET nibble == opcode % 16
        condition == get_opcode_condition(c.reg.f, opcode)
        hl == Registers_read_16(c.reg, "hl")
        taken == CASE nibble = 4 -> ~condition
                   [] nibble = 13 -> TRUE
                   [] OTHER -> condition
        \* POP r16
        pop_r16(p) ==
            [p.c EXCEPT !.reg = Registers_write_16(
                @, get_opcode_reg16(opcode - \hC0, "af"), p.v)]
        alu(o) == [o.c EXCEPT !.reg = alu_d8(@, opcode, o.v)]
        call(o) == IF taken THEN call_to(o.c, o.v) ELSE o.c
        reti(p) ==
            CPU_cycle([p.c EXCEPT !.incpc = FALSE, !.reg.pc = p.v,
                                  !.is.ime = TRUE], 1)
    IN  CASE nibble \in {0, 2, 3, 10} -> execute_C0_FF_0_2_3_A(c, opcode)
          [] nibble = 1 -> pop_r16(pop(c))
          [] nibble = 5 ->
                CPU_cycle(push(c, Registers_read_16(c.reg,
                            get_opcode_reg16(opcode - \hC0, "af"))), 1)
          [] nibble = 6 \/ nibble = 14 ->
                alu(read_operand(c))
          [] nibble \in {4, 12, 13} -> call(read_operand_16(c))
          [] nibble = 7 \/ nibble = 15 ->
                call_to([c EXCEPT !.halt = FALSE], opcode - \hC7)
          [] nibble = 8 ->
                IF opcode >= \hE0 THEN add_sp(c, opcode)
                ELSE IF condition THEN return_from(c, 2)
                ELSE CPU_cycle(c, 1)
          [] nibble = 9 ->
                (CASE opcode = \hC9 -> return_from(c, 1)
                   [] opcode = \hD9 -> reti(pop(c))
                   [] opcode = \hE9 ->
                        [c EXCEPT !.incpc = FALSE, !.reg.pc = hl]
                   [] opcode = \hF9 -> CPU_cycle([c EXCEPT !.reg.sp = hl], 1))
          [] nibble = 11 ->
                IF opcode = \hFB THEN [c EXCEPT !.is.ime = TRUE]
                ELSE arithmetic(c)

\* CPU::execute from the fetch of the opcode on (src/cpu.rs:92-573)
execute_instruction(c) ==
    LET decode(c0, opcode) ==
            CASE opcode \in \h00..\h3F -> execute_00_3F(c0, opcode)
              [] opcode = \h76 -> [c0 EXCEPT !.halt = TRUE]
              [] opcode \in \h40..\hBF -> execute_40_BF(c0, opcode)
              [] OTHER -> execute_C0_FF(c0, opcode)
        \* self.reg.pc += 1 is a checked addition
        finish(c1) ==
            IF c1.fault # "none" THEN c1
            ELSE IF ~c1.incpc THEN CPU_cycle(c1, 1)
            ELSE IF c1.reg.pc = \hFFFF THEN Fault(c1, "overflow")
            ELSE CPU_cycle([c1 EXCEPT !.reg.pc = @ + 1], 1)
        fetched(fetch) == finish(decode(fetch.c, fetch.v))
    IN  fetched(BusLoad([c EXCEPT !.incpc = TRUE], c.reg.pc))

(***************************************************************************)
(* SpecLoad: Memory::new on ROM images of every interesting length and     *)
(* header.                                                                 *)
(***************************************************************************)
\* the images: every interesting length, a header type for each arm of
\* from_header's match, ROM and RAM size codes
Images ==
    [len : {\h0000, \h0100, \h014E, \h014F, \h0150, \h8000},
     h47 : {\h00, \h01, \h02, \h03, \h04, \h05, \h06, \h08, \h0B, \h0D,
            \h0F, \h10, \h13, \h19, \h1B, \h1E, \h1F, \h20, \h22, \hFC,
            \hFE, \hFF},
     h48 : {\h00, \h01, \h08, \h0F, \hFF},
     h49 : {\h00, \h02, \h03, \h04, \h05},
     overflow_checks : BOOLEAN]

InitLoad ==
    /\ image \in {img \in Images : img.h48 = \h00 \/ img.h49 = \h00}
    /\ loaded = [tag |-> "none"]
    /\ mbc = Idle
    /\ mobs = Idle
    /\ istate = InterruptState_new
    /\ IdleTimer
    /\ IdleCpu
    /\ IdlePpu
    /\ IdleApu

\* CPU::new calls Memory::new on the image
Load ==
    /\ loaded.tag = "none"
    /\ loaded' = Memory_new(image)
    /\ mbc' = IF loaded'.tag = "Ok" THEN loaded'.mbc ELSE mbc
    /\ mobs' = [op |-> "new"]
    /\ UNCHANGED <<image, istate, timerVars, cpuVars, ppuVars, apuVars>>

NextLoad == Load

SpecLoad == InitLoad /\ [][NextLoad]_vars

(***************************************************************************)
(* SpecMbc: bus writes to a loaded cartridge.                              *)
(***************************************************************************)
MaxRamWrites == 2

\* the cartridges: NoMBC; MBC1 with 4 banks, with 64 banks and one RAM bank,
\* and a 125-bank image whose header says 128 banks, with four RAM banks;
\* MBC3 with 4 banks and one RAM bank, with 128 banks, and an image of
\* 0x0150 bytes (the header and nothing more) whose header says 4 banks;
\* MBC5 with 4 banks, and with 512 banks and four RAM banks
Cartridges ==
    {[len |-> 2 * \h4000, h47 |-> \h00, h48 |-> 0, h49 |-> 0, overflow_checks |-> FALSE],
     [len |-> 4 * \h4000, h47 |-> \h01, h48 |-> 1, h49 |-> 0, overflow_checks |-> FALSE],
     [len |-> 64 * \h4000, h47 |-> \h02, h48 |-> 5, h49 |-> 2, overflow_checks |-> FALSE],
     [len |-> 125 * \h4000, h47 |-> \h03, h48 |-> 6, h49 |-> 3, overflow_checks |-> FALSE],
     [len |-> 4 * \h4000, h47 |-> \h13, h48 |-> 1, h49 |-> 2, overflow_checks |-> FALSE],
     [len |-> 128 * \h4000, h47 |-> \h11, h48 |-> 6, h49 |-> 0, overflow_checks |-> FALSE],
     [len |-> \h0150, h47 |-> \h11, h48 |-> 1, h49 |-> 0, overflow_checks |-> FALSE],
     [len |-> 4 * \h4000, h47 |-> \h19, h48 |-> 1, h49 |-> 0, overflow_checks |-> FALSE],
     [len |-> 512 * \h4000, h47 |-> \h1B, h48 |-> 8, h49 |-> 3, overflow_checks |-> FALSE]}

MbcAddresses == {\h1FFF, \h2000, \h3000, \h4000, \h6000, \hA000, \hBFFF}

\* the values written, by the region of the address
MbcValues(address) ==
    CASE address \in \h0000..\h1FFF -> {\h00, \h0A, \h1A, \hA0}
      [] address \in \h2000..\h3FFF ->
            {\h00, \h01, \h04, \h20, \h21, \h60, \hE5}
      [] address \in \h4000..\h5FFF -> {0, 1, 3}
      [] address \in \h6000..\h7FFF -> {0, 1}
      [] OTHER -> {\h00, \hA5}

\* the addresses the claims read
RomReadAddresses == {\h4000, \h5A5A, \h7FFF}
RamReadAddresses == {\hA000, \hBFFF}

InitMbc ==
    /\ image \in Cartridges
    /\ loaded = Memory_new(image)
    /\ mbc = loaded.mbc
    /\ mobs = [op |-> "new", address |-> 0, value |-> 0, ram_changed |-> FALSE,
               enable_written |-> FALSE, ram_writes |-> 0]
    /\ istate = InterruptState_new
    /\ IdleTimer
    /\ IdleCpu
    /\ IdlePpu
    /\ IdleApu

\* a bus write to 0x0000..0x7FFF or 0xA000..0xBFFF (Memory::mem_write)
MbcWrite(address, value) ==
    /\ address \in \hA000..\hBFFF => mobs.ram_writes < MaxRamWrites
    /\ mbc' = MBC_write(mbc, address, value)
    /\ mobs' = [op |-> "write", address |-> address, value |-> value,
                ram_changed |-> mbc'.ram # mbc.ram,
                enable_written |-> IF address \in \h0000..\h1FFF
                                   THEN (value % 16 = \h0A)
                                   ELSE mobs.enable_written,
                ram_writes |-> IF address \in \hA000..\hBFFF
                               THEN mobs.ram_writes + 1
                               ELSE mobs.ram_writes]
    /\ UNCHANGED <<image, loaded, istate, timerVars, cpuVars, ppuVars, apuVars>>

NextMbc ==
    \E address \in MbcAddresses : \E value \in MbcValues(address) :
        MbcWrite(address, value)

SpecMbc == InitMbc /\ [][NextMbc]_vars

(***************************************************************************)
(* SpecRam: the battery RAM of the cartridges of SpecMbc, restored from a  *)
(* snapshot by Memory::set_ram, read back by Memory::get_ram and written   *)
(* through the bus.                                                        *)
(***************************************************************************)
\* the snapshots: none of the bytes, half a bank, one bank, four banks and
\* four banks and a byte; a snapshot with bytes starts with 0x5A
Snapshots ==
    {[len |-> n, bytes |-> IF n = 0 THEN {} ELSE {<<0, \h5A>>}] :
        n \in {0, \h1000, \h2000, \h8000, \h8001}}

\* Memory::set_ram: the vector of the cartridge RAM becomes the snapshot
Memory_set_ram(m, snapshot) ==
    [m EXCEPT !.ram_len = snapshot.len, !.ram = snapshot.bytes]

\* Memory::get_ram: a copy of the vector of the cartridge RAM
Memory_get_ram(m) == [len |-> m.ram_len, bytes |-> m.ram]

SetRam(snapshot) ==
    /\ mbc' = Memory_set_ram(mbc, snapshot)
    /\ mobs' = [mobs EXCEPT !.op = "set_ram", !.address = 0,
                            !.value = snapshot.len, !.ram_changed = FALSE]
    /\ UNCHANGED <<image, loaded, istate, timerVars, cpuVars, ppuVars, apuVars>>

NextRam ==
    \/ \E snapshot \in Snapshots : SetRam(snapshot)
    \/ \E address \in {\h0000, \h4000, \hA000, \hBFFF} :
       \E value \in MbcValues(address) : MbcWrite(address, value)

SpecRam == InitMbc /\ [][NextRam]_vars

(***************************************************************************)
(* SpecCpu and SpecExec: the interpreter.  CPU::execute is two steps, the  *)
(* interrupt check with a halted CPU's idle M-cycle (src/cpu.rs:79-90) and *)
(* the instruction (src/cpu.rs:92-573).  The cartridge is a 32 KiB ROM     *)
(* without controller; the instruction under test lies in work RAM.        *)
(*   SpecExec  one instruction of every opcode, for every second byte of   *)
(*             the 0xCB opcodes, with the PPU and the joypad quiet         *)
(*   SpecCpu   the interrupt check for the combinations of halt, IME, IE   *)
(*             and IF, with requests of the PPU and the joypad arriving    *)
(***************************************************************************)
MaxSteps == 3
MaxRequests == 1

CpuImage ==
    [len |-> 2 * \h4000, h47 |-> \h00, h48 |-> 0, h49 |-> 0,
     overflow_checks |-> FALSE]

\* a timer that is counting: TIMA overflows 4 T-cycles from here
Timer_running ==
    [Timer_new EXCEPT !.div = \h200C, !.tima = 255, !.tma = 254,
                      !.control = 5, !.enabled = TRUE, !.div_bit = 3,
                      !.previous_and = TRUE, !.overflow_delay = -1]

\* the address of the instruction under test
ProgramAt == \hC001

\* the registers in the middle of a run: BC, DE and HL point into work RAM,
\* 0xFF00 + C into high RAM, the stack lies in work RAM
Registers_running(f) ==
    [a |-> \h01, f |-> f, b |-> \hC0, c |-> \h80, d |-> \hD0, e |-> \hD8,
     h |-> \hC1, l |-> \h4D, sp |-> \hDFF0, pc |-> ProgramAt]

\* work RAM with the three bytes at ProgramAt, a return address on the
\* stack and, for a halted CPU, the HALT it executed
Ram_running(b0, b1, b2, halt) ==
    {p \in {<<ProgramAt, b0>>, <<ProgramAt + 1, b1>>, <<ProgramAt + 2, b2>>,
            <<\hDFF0, \h80>>, <<\hDFF1, \hC0>>,
            <<ProgramAt - 1, IF halt THEN \h76 ELSE 0>>} : p[2] # 0}

\* the machine the interpreter works on, from the variables
Machine ==
    [reg |-> cpu.reg, halt |-> cpu.halt, is |-> istate, timer |-> timer,
     mbc |-> mbc, mem |-> cpu.mem, cycles |-> cpu.cycles,
     fault |-> cpu.fault, incpc |-> TRUE, raised |-> 0]

\* the variables take the machine c; execute() stands at phase
Store(c, phase) ==
    /\ cpu' = [reg |-> c.reg, halt |-> c.halt, mem |-> c.mem,
               cycles |-> c.cycles, fault |-> c.fault, phase |-> phase]
    /\ istate' = c.is
    /\ timer' = c.timer
    /\ mbc' = c.mbc

InitMachine(b0, b1, b2, f, halt, is, t) ==
    /\ cpu = [reg |-> Registers_running(f), halt |-> halt,
              mem |-> Ram_running(b0, b1, b2, halt), cycles |-> 0,
              fault |-> "none", phase |-> "check"]
    /\ istate = is
    /\ timer = t
    /\ tcyc = 0 /\ twrites = 0 /\ tobs = Idle
    /\ image = CpuImage
    /\ loaded = Memory_new(image)
    /\ mbc = loaded.mbc
    /\ mobs = Idle
    /\ IdlePpu
    /\ IdleApu
    /\ cobs = [step |-> "init", before |-> Machine, raised |-> 0,
               pending |-> FALSE, requests |-> 0, steps |-> 0,
               halted_at |-> IF halt THEN ProgramAt - 1 ELSE 0]

\* the opcodes that hand over to CPU::arithmetic
ArithmeticOpcodes == {\hCB, \hDB, \hEB}

\* the bytes after the opcode: an address in work RAM, or 0xFFFF
OperandBytes(b0) ==
    IF b0 \in ArithmeticOpcodes THEN {<<b1, 0>> : b1 \in 0..255}
    ELSE {<<\h80, \hC0>>, <<\hFF, \hFF>>}

InitExec ==
    \E b0 \in 0..255 : \E bb \in OperandBytes(b0) :
    \E f \in {\h00, \h80, \h10, \hF0} :
        InitMachine(b0, bb[1], bb[2], f, FALSE, InterruptState_new,
                    Timer_aged(\h1FFC))

InitCpu ==
    \E b0 \in {\h00, \h76, \hFB} :
    \E halt \in BOOLEAN, ime \in BOOLEAN :
    \E ie \in {\h00, \h1F, \h1C} :
    \E iflag \in {\h00, \h1F, \h1E, \h1C, \h18, \h10} :
    \E t \in {Timer_aged(\h1FFC), Timer_running} :
        InitMachine(b0, 0, 0, \hB0, halt,
                    [ime |-> ime, ie |-> ie, iflag |-> iflag], t)

\* the head of CPU::execute: check_for_interrupt, and the M-cycle of a CPU
\* that is still halted, after which execute returns
CheckForInterrupt ==
    /\ cpu.phase = "check"
    /\ cpu.fault = "none"
    /\ cobs.steps < MaxSteps
    /\ LET checked(c1, c2) ==
               /\ Store(c2, IF c1.halt THEN "check" ELSE "exec")
               /\ cobs' = [cobs EXCEPT
                             !.step = CASE c1.halt -> "halted"
                                        [] c1.cycles # cpu.cycles -> "dispatch"
                                        [] OTHER -> "check",
                             !.before = Machine,
                             !.raised = c2.raised,
                             !.pending = BitAnd(istate.ie, istate.iflag) > 0,
                             !.steps = @ + 1]
           halted(c1) == checked(c1, IF c1.halt THEN CPU_cycle(c1, 1) ELSE c1)
       IN  halted(check_for_interrupt(Machine))
    /\ UNCHANGED <<tcyc, twrites, tobs, image, loaded, mobs, ppuVars, apuVars>>

\* the rest of CPU::execute: the instruction at the program counter
ExecInstruction ==
    /\ cpu.phase = "exec"
    /\ cpu.fault = "none"
    /\ LET executed(c1) ==
               /\ Store(c1, "check")
               /\ cobs' = [cobs EXCEPT
                             !.step = "exec",
                             !.before = Machine,
                             !.raised = c1.raised,
                             !.halted_at = IF c1.halt THEN cpu.reg.pc ELSE @]
       IN  executed(execute_instruction(Machine))
    /\ UNCHANGED <<tcyc, twrites, tobs, image, loaded, mobs, ppuVars, apuVars>>

\* CPU::request_interrupt for a request of the PPU (src/cpu.rs:62) or of
\* the joypad (update_input), raised in the M-cycles that ended the last
\* step
RequestInterrupt(interrupt) ==
    /\ cpu.fault = "none"
    /\ cobs.requests < MaxRequests
    /\ \/ cpu.phase = "check" /\ cobs.steps < MaxSteps
       \/ cobs.step = "dispatch"
    /\ istate' = request_interrupt(istate, interrupt)
    /\ cobs' = [cobs EXCEPT !.step = "request", !.requests = @ + 1]
    /\ UNCHANGED <<cpu, timerVars, mbcVars, ppuVars, apuVars>>

NextExec == CheckForInterrupt \/ ExecInstruction

SpecExec == InitExec /\ [][NextExec]_vars

NextCpu ==
    \/ CheckForInterrupt
    \/ ExecInstruction
    \/ \E interrupt \in {VBLANK, LCD, JOYPAD} : RequestInterrupt(interrupt)

SpecCpu == InitCpu /\ [][NextCpu]_vars

(***************************************************************************)
(* SpecRun: CPU::run of core: the loop that steps the interpreter until    *)
(* the M-cycle counter reaches the target, and resets the counter.  The    *)
(* step (run_instruction) and the counting of cycle_counter are not among  *)
(* the sources of core; the step is CPU::execute of src/cpu.rs and the     *)
(* counter, after the specification, the M-cycles it hands to CPU::cycle.  *)
(* The time is given in microseconds.                                      *)
(***************************************************************************)
MaxRuns == 2

\* MS_PER_M_CYCLE = 0.0009536743 ms: (millis / MS_PER_M_CYCLE).floor() as
\* u32, a cast that saturates: a negative time gives 0 (the upper end,
\* u32::MAX, lies beyond the times of this model)
target_cycles(micros) ==
    IF micros < 0 THEN 0 ELSE (micros * 10000000) \div 9536743

\* CPU::execute as one step: the interrupt check, the M-cycle of a halted
\* CPU or the instruction
run_instruction(c) ==
    LET checked(c1) ==
            IF c1.fault # "none" THEN c1
            ELSE IF c1.halt THEN CPU_cycle(c1, 1)
            ELSE execute_instruction(c1)
    IN  checked(check_for_interrupt(c))

\* the first bytes of the program: NOP, STOP, JR -2, INC (HL), HALT, ADD,
\* RLC B (0xCB 0x00), CALL, RST 0x38 at 0xC001 and the prohibited 0xE3
RunPrograms ==
    {<<\h00, 0, 0>>, <<\h10, 0, 0>>, <<\h18, \hFE, 0>>, <<\h34, 0, 0>>,
     <<\h76, 0, 0>>, <<\h80, 0, 0>>, <<\hCB, 0, 0>>, <<\hCD, \h80, \hC0>>,
     <<\hE3, 0, 0>>}

RunTimes == {-1, 0, 1, 2, 5, 8}

InitRun ==
    /\ \E b \in RunPrograms : \E halt \in BOOLEAN, ime \in BOOLEAN :
       \E ie \in {\h00, \h04} :
       \E t \in {Timer_aged(\h1FFC), Timer_running} :
          /\ cpu = [reg |-> Registers_running(\h00), halt |-> halt,
                    mem |-> Ram_running(b[1], b[2], b[3], halt),
                    cycles |-> 0, fault |-> "none", phase |-> "idle"]
          /\ istate = [ime |-> ime, ie |-> ie, iflag |-> 0]
          /\ timer = t
    /\ tcyc = 0 /\ twrites = 0 /\ tobs = Idle
    /\ image = CpuImage
    /\ loaded = Memory_new(image)
    /\ mbc = loaded.mbc
    /\ mobs = Idle
    /\ IdlePpu
    /\ IdleApu
    /\ cobs = [op |-> "new", target |-> 0, before |-> 0, after |-> 0,
               halted |-> FALSE, runs |-> 0]

\* run is called: the target is computed
RunStart(micros) ==
    /\ cpu.phase = "idle"
    /\ cobs.runs < MaxRuns
    /\ cpu' = [cpu EXCEPT !.phase = "loop"]
    /\ cobs' = [cobs EXCEPT !.op = "run", !.target = target_cycles(micros),
                            !.before = cpu.cycles, !.after = cpu.cycles,
                            !.halted = FALSE, !.runs = @ + 1]
    /\ UNCHANGED <<istate, timerVars, mbcVars, ppuVars, apuVars>>

\* the body of the loop of run: one step
RunInstruction ==
    /\ cpu.phase = "loop"
    /\ cpu.fault = "none"
    /\ cpu.cycles < cobs.target
    /\ LET stepped(c1) ==
               /\ Store(c1, "loop")
               /\ cobs' = [cobs EXCEPT !.op = "run_instruction",
                                       !.before = cpu.cycles,
                                       !.after = c1.cycles,
                                       !.halted = c1.halt /\ cpu.halt]
       IN  stepped(run_instruction(Machine))
    /\ UNCHANGED <<tcyc, twrites, tobs, image, loaded, mobs, ppuVars, apuVars>>

\* the loop of run ends: the counter is reset and run returns
RunReturn ==
    /\ cpu.phase = "loop"
    /\ cpu.fault = "none"
    /\ ~(cpu.cycles < cobs.target)
    /\ cpu' = [cpu EXCEPT !.cycles = 0, !.phase = "idle"]
    /\ cobs' = [cobs EXCEPT !.op = "return", !.after = cpu.cycles]
    /\ UNCHANGED <<istate, timerVars, mbcVars, ppuVars, apuVars>>

NextRun ==
    \/ \E micros \in RunTimes : RunStart(micros)
    \/ RunInstruction
    \/ RunReturn

SpecRun == InitRun /\ [][NextRun]_vars

(***************************************************************************)
(* The PPU.  A PPU p is the PPU struct: vram is the set of <<offset, byte>> *)
(* of its non-zero bytes, oam the 40 sprites, display the double buffer    *)
(* with each half the set of <<x, y, colour>> of its pixels that are not   *)
(* colour 0: cur is the half the renderer reads, next the half the PPU     *)
(* writes.  The repository holds the PPU twice, in core/src/ppu.rs and in  *)
(* src/cpu/ppu.rs; crate tells which of the two OAM::write is built.       *)
(***************************************************************************)
LCDC_ENABLE == 128
LCDC_WINDOW_TILE_MAP == 64
LCDC_WINDOW_ENABLE == 32
LCDC_TILE_DATA_AREA == 16
LCDC_BG_TILE_MAP == 8
LCDC_OBJ_SIZE == 4
LCDC_OBJ_ENABLE == 2
LCDC_BG_WINDOW_ENABLE == 1
STAT_LYC == 64
STAT_MODE2 == 32
STAT_MODE1 == 16
STAT_MODE0 == 8

\* OAMSprite::from
OAMSprite_from(y, x, tile_index, flags) ==
    [y |-> y, x |-> x, tile_index |-> tile_index, flags |-> flags]

\* OAM::new
OAM_new == [i \in 0..39 |-> OAMSprite_from(0, 0, 0, 0)]

\* OAM::read
OAM_read(oam, address) ==
    LET sprite == oam[address \div 4]
    IN  CASE address % 4 = 0 -> sprite.y
          [] address % 4 = 1 -> sprite.x
          [] address % 4 = 2 -> sprite.tile_index
          [] address % 4 = 3 -> sprite.flags

\* OAM::write of src/cpu/ppu.rs: the sprite is copied out of the array
\* (let mut sprite = self.sprites[..]) and the copy is written
OAM_write_src(oam, address, value) == oam

\* OAM::write of core/src/ppu.rs
OAM_write(oam, address, value) ==
    [oam EXCEPT ![address \div 4] =
        CASE address % 4 = 0 -> [@ EXCEPT !.y = value]
          [] address % 4 = 1 -> [@ EXCEPT !.x = value]
          [] address % 4 = 2 -> [@ EXCEPT !.tile_index = value]
          [] address % 4 = 3 -> [@ EXCEPT !.flags = value]]

\* PPU::new
PPU_new(crate) ==
    [crate |-> crate, state |-> "Active",
     display |-> [cur |-> {}, next |-> {}],
     vram |-> {}, oam |-> OAM_new, oam_dma_source |-> 0,
     oam_dma_request |-> FALSE, lcdc |-> 0, lx |-> 0, ly |-> 0,
     bg_x |-> 0, bg_y |-> 0, win_x |-> 0, win_y |-> 0, win_line |-> 0,
     palettes |-> [bg |-> 0, obj0 |-> 0, obj1 |-> 0],
     interrupt_request |-> 0, stat_enable |-> 0, mode |-> "OAMScan",
     lyc |-> 0]

\* From<PPUMode> for u8
PPUMode_u8(mode) ==
    CASE mode = "HBlank" -> 0
      [] mode = "VBlank" -> 1
      [] mode = "OAMScan" -> 2
      [] mode = "Drawing" -> 3

\* a disable that leaves the pixels of both buffers
disable_keeping_display(p) ==
    IF p.state = "Disabled" THEN p
    ELSE [p EXCEPT !.state = "Disabled", !.mode = "HBlank",
                   !.lx = 0, !.ly = 0]

\* PPU::disable
disable(p) ==
    IF p.state = "Disabled" THEN p
    ELSE [p EXCEPT !.display = IF p.state = "Active"
                                THEN [cur |-> {}, next |-> {}] ELSE @,
                   !.state = "Disabled", !.mode = "HBlank",
                   !.lx = 0, !.ly = 0]

\* PPU::mem_read
PPU_mem_read(p, address) ==
    CASE address \in \h8000..\h9FFF -> RamCell(p.vram, address - \h8000)
      [] address \in \hFE00..\hFE9F -> OAM_read(p.oam, address - \hFE00)
      [] address = \hFF40 -> p.lcdc
      [] address = \hFF41 ->
            BitOr(BitOr(p.stat_enable, IF p.lyc = p.ly THEN 4 ELSE 0),
                  PPUMode_u8(p.mode))
      [] address = \hFF42 -> p.bg_y
      [] address = \hFF43 -> p.bg_x
      [] address = \hFF44 -> p.ly
      [] address = \hFF45 -> p.lyc
      [] address = \hFF46 -> p.oam_dma_source
      [] address = \hFF47 -> p.palettes.bg
      [] address = \hFF48 -> p.palettes.obj0
      [] address = \hFF49 -> p.palettes.obj1
      [] address = \hFF4A -> p.win_y
      [] address = \hFF4B -> p.win_x + 7
      [] OTHER -> \hFF

\* the write of LCDC in PPU::mem_write
write_lcdc(p, value) ==
    LET enabled == intersects(value, LCDC_ENABLE)
    IN  CASE p.state # "Disabled" /\ ~enabled ->
                disable([p EXCEPT !.lcdc = value])
          [] p.state = "Disabled" /\ enabled ->
                [p EXCEPT !.lcdc = value, !.state = "Starting",
                          !.mode = "OAMScan"]
          [] OTHER -> [p EXCEPT !.lcdc = value]

\* PPU::mem_write
PPU_mem_write(p, address, value) ==
    CASE address \in \h8000..\h9FFF ->
            [p EXCEPT !.vram =
                {b \in @ : b[1] # address - \h8000}
                \cup (IF value = 0 THEN {}
                      ELSE {<<address - \h8000, value>>})]
      [] address \in \hFE00..\hFE9F ->
            [p EXCEPT !.oam =
                IF p.crate = "src"
                THEN OAM_write_src(@, address - \hFE00, value)
                ELSE OAM_write(@, address - \hFE00, value)]
      [] address = \hFF40 -> write_lcdc(p, value)
      [] address = \hFF41 -> [p EXCEPT !.stat_enable = BitAnd(value, \h78)]
      [] address = \hFF42 -> [p EXCEPT !.bg_y = value]
      [] address = \hFF43 -> [p EXCEPT !.bg_x = value]
      [] address = \hFF45 -> [p EXCEPT !.lyc = value]
      [] address = \hFF46 ->
            [p EXCEPT !.oam_dma_source = value, !.oam_dma_request = TRUE]
      [] address = \hFF47 -> [p EXCEPT !.palettes.bg = value]
      [] address = \hFF48 -> [p EXCEPT !.palettes.obj0 = value]
      [] address = \hFF49 -> [p EXCEPT !.palettes.obj1 = value]
      [] address = \hFF4A -> [p EXCEPT !.win_y = value]
      [] address = \hFF4B ->
            [p EXCEPT !.win_x = IF value < 7 THEN 0 ELSE value - 7]
      [] OTHER -> p

(***************************************************************************)
(* SpecBus: bus writes of the CPU to video RAM, work RAM, OAM and high     *)
(* RAM, for both PPU sources of the repository.                            *)
(***************************************************************************)
MaxBusWrites == 2

BusAddresses ==
    {\h8000, \h9FFF, \hC000, \hDFFF, \hFE00, \hFE03, \hFE9F, \hFF80, \hFFFE}

\* the addresses CPU::read and CPU::write hand to the PPU
IsPpuAddress(address) ==
    \/ address \in \h8000..\h9FFF \/ address \in \hFE00..\hFE9F
    \/ address \in \hFF40..\hFF4B

\* CPU::read for the PPU and the memory
Bus_read(address) ==
    IF IsPpuAddress(address) THEN PPU_mem_read(ppu, address)
    ELSE Memory_mem_read([mem |-> cpu.mem, mbc |-> mbc], address)

InitBus ==
    /\ \E crate \in {"core", "src"} : ppu = PPU_new(crate)
    /\ pobs = [op |-> "new", address |-> 0, value |-> 0, writes |-> 0]
    /\ cpu = [mem |-> {}]
    /\ cobs = Idle
    /\ istate = InterruptState_new
    /\ IdleTimer
    /\ IdleMbc
    /\ IdleApu

\* CPU::write for the PPU and the memory
BusWrite(address, value) ==
    /\ pobs.writes < MaxBusWrites
    /\ IF IsPpuAddress(address)
       THEN /\ ppu' = PPU_mem_write(ppu, address, value)
            /\ cpu' = cpu
       ELSE /\ cpu' = [mem |-> Memory_mem_write(
                                  [mem |-> cpu.mem, mbc |-> mbc],
                                  address, value).mem]
            /\ ppu' = ppu
    /\ pobs' = [op |-> "write", address |-> address, value |-> value,
                writes |-> pobs.writes + 1]
    /\ UNCHANGED <<cobs, istate, timerVars, mbcVars, apuVars>>

NextBus ==
    \E address \in BusAddresses : \E value \in {\h00, \h5A, \hFF} :
        BusWrite(address, value)

SpecBus == InitBus /\ [][NextBus]_vars

(***************************************************************************)
(* The APU (core/src/apu.rs).  The audio buffer is absent and the sample   *)
(* delay is 0, as APU::new leaves them: no sample is mixed or pushed.      *)
(***************************************************************************)
SquareChannel_new ==
    [channel_on |-> FALSE, dac_on |-> FALSE, period_div |-> 0,
     duty_cycle_pointer |-> 0, length_timer |-> 0, volume |-> 0, period |-> 0,
     sweep_timer |-> 1, envelope_timer |-> 1, sweep_pace |-> 0,
     sweep_increase |-> TRUE, sweep_step |-> 0, duty_cycle_index |-> 0,
     initial_length_timer |-> 0, length_timer_enabled |-> FALSE,
     initial_period |-> 0, initial_volume |-> 0, envelope_increase |-> FALSE,
     envelope_pace |-> 0]

WaveChannel_new ==
    [dac_on |-> FALSE, channel_on |-> FALSE, period_div |-> 0,
     wave_pointer |-> 0, length_timer |-> 0, output_level |-> 0, period |-> 0,
     initial_length_timer |-> 0, length_timer_enabled |-> FALSE,
     initial_period |-> 0, wave_ram |-> [i \in 0..15 |-> 0]]

NoiseChannel_new ==
    [channel_on |-> FALSE, dac_on |-> FALSE, duty_cycle_pointer |-> 0,
     length_timer |-> 0, volume |-> 0, envelope_timer |-> 1, lfsr |-> 0,
     lfsr_bit |-> FALSE, lfsr_timer |-> 1, lfsr_pace |-> 1, clock_shift |-> 0,
     short_lfsr |-> FALSE, clock_divider |-> 0, initial_length_timer |-> 0,
     length_timer_enabled |-> FALSE, initial_volume |-> 0,
     envelope_increase |-> FALSE, envelope_pace |-> 0]

\* update_length_timer of the square, the wave and the noise channel
update_length_timer(ch) ==
    IF ~ch.length_timer_enabled THEN ch
    ELSE IF ch.length_timer = 0 THEN [ch EXCEPT !.channel_on = FALSE]
    ELSE [ch EXCEPT !.length_timer = @ - 1]

update_sweep(ch) ==
    LET swept(period) ==
            IF period > \h7FF
            THEN [ch EXCEPT !.sweep_timer = 1, !.period = \h7FF,
                            !.channel_on = FALSE]
            ELSE [ch EXCEPT !.sweep_timer = 1, !.period = period]
        change(amount) ==
            IF ch.sweep_increase THEN (ch.period + amount) % 65536
            ELSE IF ch.volume > 0 THEN ch.period - amount
            ELSE ch.period
    IN  IF ch.sweep_pace = 0 THEN ch
        ELSE IF ch.sweep_timer < ch.sweep_pace
        THEN [ch EXCEPT !.sweep_timer = @ + 1]
        ELSE swept(change(ch.period \div Pow2(ch.sweep_step)))

\* update_envelope of the square and the noise channel
update_envelope(ch) ==
    IF ch.envelope_pace = 0 THEN ch
    ELSE IF ch.envelope_timer < ch.envelope_pace
    THEN [ch EXCEPT !.envelope_timer = @ + 1]
    ELSE [ch EXCEPT !.envelope_timer = 1,
                    !.volume = IF ch.envelope_increase
                               THEN (IF @ < 15 THEN @ + 1 ELSE @)
                               ELSE (IF @ > 0 THEN @ - 1 ELSE @)]

Square_update_period(ch) ==
    IF ch.period_div = \h7FF
    THEN [ch EXCEPT !.duty_cycle_pointer = IF @ = 7 THEN 0 ELSE @ + 1,
                    !.period_div = ch.period]
    ELSE [ch EXCEPT !.period_div = @ + 1]

Wave_update_period(ch) ==
    IF ch.period_div = \h7FF
    THEN [ch EXCEPT !.wave_pointer = IF @ = 31 THEN 0 ELSE @ + 1,
                    !.period_div = ch.period]
    ELSE [ch EXCEPT !.period_div = @ + 1]

update_lfsr(ch) ==
    LET shifted(lfsr) ==
            [ch EXCEPT !.lfsr_timer = 1, !.lfsr = lfsr \div 2,
                       !.lfsr_bit = (lfsr \div 2) % 2 = 1]
    IN  IF ch.lfsr_timer < ch.lfsr_pace THEN [ch EXCEPT !.lfsr_timer = @ + 1]
        ELSE shifted(IF Bit(ch.lfsr, 0) = Bit(ch.lfsr, 1)
                     THEN BitOr(ch.lfsr,
                                IF ch.short_lfsr THEN \h8080 ELSE \h8000)
                     ELSE ch.lfsr)

\* the channel after its DAC bits were written: a switched-off DAC
\* switches the channel off (apu.rs:203-205, 331-333, 518-520)
dac_written_keeps_channel(ch) == ch

dac_written(ch) == IF ~ch.dac_on THEN [ch EXCEPT !.channel_on = FALSE] ELSE ch

\* WaveChannel::get_sample before convert_sample: the 4-bit digital sample,
\* "dac_off" where the analog sample is 0.0 because the DAC is off
Wave_get_sample(ch) ==
    LET byte == ch.wave_ram[ch.wave_pointer \div 2]
        nibble == IF BitAnd(ch.wave_pointer, 2) = 0 THEN byte \div 16
                  ELSE byte % 16
    IN  IF ~ch.dac_on THEN "dac_off"
        ELSE IF ~ch.channel_on THEN 0
        ELSE CASE ch.output_level = 0 -> 0
               [] ch.output_level = 1 -> nibble
               [] ch.output_level = 2 -> nibble \div 2
               [] ch.output_level = 3 -> nibble \div 4

\* a trigger that loads the length timer only when it has run out
Square_trigger_length_kept(ch) ==
    [ch EXCEPT !.channel_on = ch.dac_on, !.period = ch.initial_period,
               !.period_div = ch.initial_period, !.volume = ch.initial_volume,
               !.envelope_timer = 1, !.sweep_timer = 1,
               !.length_timer = IF @ = 0 THEN 64 ELSE @]

Square_trigger(ch) ==
    [ch EXCEPT !.channel_on = ch.dac_on, !.period = ch.initial_period,
               !.period_div = ch.initial_period, !.volume = ch.initial_volume,
               !.envelope_timer = 1, !.sweep_timer = 1, !.length_timer = 64]

Wave_trigger(ch) ==
    [ch EXCEPT !.channel_on = ch.dac_on, !.period = ch.initial_period,
               !.period_div = ch.initial_period, !.length_timer = 256,
               !.wave_pointer = 0]

Noise_trigger(ch) ==
    [ch EXCEPT !.channel_on = ch.dac_on, !.lfsr = 0,
               !.volume = ch.initial_volume, !.envelope_timer = 1,
               !.length_timer = 64]

\* NRx4: the length enable, the high bits of the period and the trigger
control_written(ch, value) ==
    [ch EXCEPT !.length_timer_enabled = Bit(value, 6) = 1,
               !.initial_period = (@ % 256) + (256 * (value % 8))]

Square_write_register(ch, address, value) ==
    CASE address = \hFF10 ->
            [ch EXCEPT !.sweep_pace = value \div 16,
                       !.sweep_increase = Bit(value, 3) = 0,
                       !.sweep_step = value % 8]
      [] address \in {\hFF11, \hFF16} ->
            [ch EXCEPT !.duty_cycle_index = value \div 64,
                       !.initial_length_timer = 64 - (value % 64)]
      [] address \in {\hFF12, \hFF17} ->
            dac_written([ch EXCEPT !.initial_volume = value \div 16,
                                   !.envelope_increase = Bit(value, 3) = 1,
                                   !.envelope_pace = value % 8,
                                   !.dac_on = value \div 8 > 0])
      [] address \in {\hFF13, \hFF18} ->
            [ch EXCEPT !.initial_period = ((@ \div 256) * 256) + value]
      [] address \in {\hFF14, \hFF19} ->
            IF Bit(value, 7) = 1
            THEN Square_trigger(control_written(ch, value))
            ELSE control_written(ch, value)

Wave_write_register(ch, address, value) ==
    CASE address = \hFF1A ->
            dac_written([ch EXCEPT !.dac_on = Bit(value, 7) = 1])
      [] address = \hFF1B ->
            [ch EXCEPT !.initial_length_timer = 256 - value]
      [] address = \hFF1C -> [ch EXCEPT !.output_level = (value \div 32) % 4]
      [] address = \hFF1D ->
            [ch EXCEPT !.initial_period = ((@ \div 256) * 256) + value]
      [] address = \hFF1E ->
            IF Bit(value, 7) = 1
            THEN Wave_trigger(control_written(ch, value))
            ELSE control_written(ch, value)
      [] address \in \hFF30..\hFF3F ->
            [ch EXCEPT !.wave_ram[address - \hFF30] = value]

Noise_write_register(ch, address, value) ==
    CASE address = \hFF20 ->
            [ch EXCEPT !.initial_length_timer = 64 - (value % 64)]
      [] address = \hFF21 ->
            dac_written([ch EXCEPT !.initial_volume = value \div 16,
                                   !.envelope_increase = Bit(value, 3) = 1,
                                   !.envelope_pace = value % 8,
                                   !.dac_on = value \div 8 > 0])
      [] address = \hFF22 ->
            [ch EXCEPT !.clock_shift = value \div 16,
                       !.short_lfsr = Bit(value, 3) = 1,
                       !.clock_divider = value % 8,
                       !.lfsr_pace = IF value % 8 = 0
                                     THEN Pow2(value \div 16) \div 2
                                     ELSE (value % 8) * Pow2(value \div 16)]
      [] address = \hFF23 ->
            IF Bit(value, 7) = 1
            THEN Noise_trigger([ch EXCEPT !.length_timer_enabled =
                                              Bit(value, 6) = 1])
            ELSE [ch EXCEPT !.length_timer_enabled = Bit(value, 6) = 1]

APU_new ==
    [on |-> TRUE, sample_delay_counter |-> 0, period_delay_counter |-> 0,
     div_apu |-> 0, last_div_bit |-> FALSE, pan_options |-> 0,
     left_volume |-> 1, right_volume |-> 1,
     square_channel_1 |-> SquareChannel_new,
     square_channel_2 |-> SquareChannel_new,
     wave_channel |-> WaveChannel_new, noise_channel |-> NoiseChannel_new]

\* bit 4 of the divider taken for the bit of the DIV register
div_bit_fell_bit_4(last_div_bit, timer_div) ==
    last_div_bit /\ Bit(timer_div, 4) = 0

\* APU::cycle: bit 12 of the divider was 1 at the last T-cycle and is 0 now
div_bit_fell(last_div_bit, timer_div) ==
    last_div_bit /\ Bit(timer_div, 12) = 0

\* APU::cycle without an audio buffer
APU_cycle(a, timer_div) ==
    LET lengths(s) ==
            [s EXCEPT !.square_channel_1 = update_length_timer(@),
                      !.square_channel_2 = update_length_timer(@),
                      !.wave_channel = update_length_timer(@),
                      !.noise_channel = update_length_timer(@)]
        sweep(s) == [s EXCEPT !.square_channel_1 = update_sweep(@)]
        envelopes(s) ==
            [s EXCEPT !.square_channel_1 = update_envelope(@),
                      !.square_channel_2 = update_envelope(@),
                      !.noise_channel = update_envelope(@)]
        sequencer(s) ==
            IF s.div_apu % 2 # 0 THEN s
            ELSE IF s.div_apu % 4 # 0 THEN lengths(s)
            ELSE IF s.div_apu % 8 # 0 THEN sweep(lengths(s))
            ELSE envelopes(sweep(lengths(s)))
        divider(s) ==
            IF div_bit_fell(s.last_div_bit, timer_div)
            THEN [sequencer([s EXCEPT !.div_apu = (@ + 1) % 256])
                    EXCEPT !.last_div_bit = FALSE]
            ELSE [s EXCEPT !.last_div_bit = Bit(timer_div, 12) = 1]
        wave(s) == [s EXCEPT !.wave_channel = Wave_update_period(@)]
        squares(s) ==
            [s EXCEPT !.square_channel_1 = Square_update_period(@),
                      !.square_channel_2 = Square_update_period(@)]
        noise(s) == [s EXCEPT !.noise_channel = update_lfsr(@)]
        periods(s) ==
            IF s.period_delay_counter % 2 # 0 THEN s
            ELSE IF s.period_delay_counter % 4 # 0 THEN wave(s)
            ELSE IF s.period_delay_counter % 16 # 0 THEN squares(wave(s))
            ELSE noise(squares(wave(s)))
    IN  periods([divider(a) EXCEPT !.period_delay_counter = (@ + 1) % 256])

turn_off_keeping_channels(a) == [a EXCEPT !.on = FALSE]

turn_off(a) ==
    [a EXCEPT !.on = FALSE, !.sample_delay_counter = 0,
              !.period_delay_counter = 0, !.div_apu = 0,
              !.last_div_bit = FALSE, !.pan_options = 0, !.left_volume = 1,
              !.right_volume = 1, !.square_channel_1 = SquareChannel_new,
              !.square_channel_2 = SquareChannel_new,
              !.wave_channel = [WaveChannel_new EXCEPT
                                  !.wave_ram = a.wave_channel.wave_ram],
              !.noise_channel = NoiseChannel_new]

APU_mem_read(a, address) ==
    LET square(ch) ==
            CASE address = \hFF10 ->
                    BitOr(ch.sweep_pace * 16 + ch.sweep_step
                            + (IF ch.sweep_increase THEN 0 ELSE 8), \h80) % 256
              [] address \in {\hFF11, \hFF16} ->
                    BitOr((ch.duty_cycle_index * 64) % 256, \h3F)
              [] address \in {\hFF12, \hFF17} ->
                    ((ch.initial_volume * 16) % 256)
                        + (IF ch.envelope_increase THEN 8 ELSE 0)
                        + ch.envelope_pace
              [] address \in {\hFF13, \hFF18} -> \hFF
              [] address \in {\hFF14, \hFF19} ->
                    IF ch.length_timer_enabled THEN \hFF ELSE \hBF
        wave(ch) ==
            CASE address = \hFF1A -> IF ch.dac_on THEN \hFF ELSE \h7F
              [] address = \hFF1C -> BitOr((ch.output_level * 32) % 256, \h9F)
              [] address = \hFF1E ->
                    IF ch.length_timer_enabled THEN \hFF ELSE \hBF
              [] address \in \hFF30..\hFF3F -> ch.wave_ram[address - \hFF30]
              [] OTHER -> \hFF
        noise(ch) ==
            CASE address = \hFF20 -> \hFF
              [] address = \hFF21 ->
                    ((ch.initial_volume * 16) % 256)
                        + (IF ch.envelope_increase THEN 8 ELSE 0)
                        + ch.envelope_pace
              [] address = \hFF22 ->
                    BitOr((ch.clock_shift * 16) % 256,
                          (IF ch.short_lfsr THEN 8 ELSE 0) + ch.clock_divider)
              [] address = \hFF23 ->
                    IF ch.length_timer_enabled THEN \hFF ELSE \hBF
        flag(on, bit) == IF on THEN Pow2(bit) ELSE 0
    IN  CASE address \in \hFF10..\hFF14 -> square(a.square_channel_1)
          [] address \in \hFF16..\hFF19 -> square(a.square_channel_2)
          [] address \in (\hFF1A..\hFF1E) \cup (\hFF30..\hFF3F) ->
                wave(a.wave_channel)
          [] address \in \hFF20..\hFF23 -> noise(a.noise_channel)
          [] address = \hFF24 ->
                BitOr(((a.left_volume - 1) * 16) % 256, a.right_volume - 1)
          [] address = \hFF25 -> a.pan_options
          [] address = \hFF26 ->
                flag(a.on, 7) + \h70 + flag(a.noise_channel.channel_on, 3)
                    + flag(a.wave_channel.dac_on, 2)
                    + flag(a.square_channel_2.channel_on, 1)
                    + flag(a.square_channel_1.channel_on, 0)
          [] OTHER -> \hFF

\* a write the switched-off APU ignores (apu.rs:851-853)
write_ignored_never(a, address) == FALSE

write_ignored(a, address) ==
    ~a.on /\ address \notin {\hFF26} \cup (\hFF30..\hFF3F)

APU_mem_write(a, address, value) ==
    IF write_ignored(a, address) THEN a
    ELSE CASE address \in \hFF10..\hFF14 ->
                [a EXCEPT !.square_channel_1 =
                              Square_write_register(@, address, value)]
           [] address \in \hFF16..\hFF19 ->
                [a EXCEPT !.square_channel_2 =
                              Square_write_register(@, address, value)]
           [] address \in (\hFF1A..\hFF1E) \cup (\hFF30..\hFF3F) ->
                [a EXCEPT !.wave_channel =
                              Wave_write_register(@, address, value)]
           [] address \in \hFF20..\hFF23 ->
                [a EXCEPT !.noise_channel =
                              Noise_write_register(@, address, value)]
           [] address = \hFF24 ->
                [a EXCEPT !.left_volume = ((value \div 16) % 8) + 1,
                          !.right_volume = (value % 8) + 1]
           [] address = \hFF25 -> [a EXCEPT !.pan_options = value]
           [] address = \hFF26 ->
                IF a.on /\ Bit(value, 7) = 0 THEN turn_off(a)
                ELSE [a EXCEPT !.on = Bit(value, 7) = 1]
           [] OTHER -> a

(***************************************************************************)
(* SpecApu: register writes of the CPU to the APU and T-cycles of the APU. *)
(* APU::cycle reads bit 12 of the divider the CPU hands it.                *)
(***************************************************************************)
MaxApuWrites == 3
MaxApuCycles == 8

ApuWrites ==
    {<<\hFF10, \h11>>, <<\hFF12, \hF0>>, <<\hFF12, \h00>>, <<\hFF14, \hC7>>,
     <<\hFF17, \h08>>, <<\hFF19, \h80>>,
     <<\hFF1A, \h80>>, <<\hFF1A, \h00>>, <<\hFF1E, \h80>>, <<\hFF30, \h5A>>,
     <<\hFF21, \hF0>>, <<\hFF23, \h80>>,
     <<\hFF24, \h77>>, <<\hFF26, \h00>>, <<\hFF26, \h80>>}

\* the four channels of the APU by their number
Channels(a) ==
    [c \in 1..4 |-> CASE c = 1 -> a.square_channel_1
                      [] c = 2 -> a.square_channel_2
                      [] c = 3 -> a.wave_channel
                      [] c = 4 -> a.noise_channel]

\* what an operation found: the master enable, the channels and the DACs on,
\* and the length timers
Found(a) ==
    [was_on |-> a.on,
     were_on |-> {c \in 1..4 : Channels(a)[c].channel_on},
     dacs_were_on |-> {c \in 1..4 : Channels(a)[c].dac_on},
     lengths |-> [c \in 1..4 |-> Channels(a)[c].length_timer]]

InitApu ==
    /\ apu = APU_new
    /\ aobs = [op |-> "new", address |-> 0, value |-> 0, writes |-> 0,
               cycles |-> 0, found |-> Found(APU_new)]
    /\ istate = InterruptState_new
    /\ IdleTimer
    /\ IdleMbc
    /\ IdleCpu
    /\ IdlePpu

\* CPU::write to 0xFF10..0xFF3F (APU::mem_write)
ApuWrite(address, value) ==
    /\ aobs.writes < MaxApuWrites
    /\ apu' = APU_mem_write(apu, address, value)
    /\ aobs' = [aobs EXCEPT !.op = "write", !.address = address,
                            !.value = value, !.writes = @ + 1,
                            !.found = Found(apu)]
    /\ UNCHANGED <<istate, timerVars, mbcVars, cpuVars, ppuVars>>

\* one T-cycle of the APU (APU::cycle), at most max_cycles of them
ApuCycle(timer_div, max_cycles) ==
    /\ aobs.cycles < max_cycles
    /\ apu' = APU_cycle(apu, timer_div)
    /\ aobs' = [aobs EXCEPT !.op = "cycle", !.address = 0,
                            !.value = timer_div, !.cycles = @ + 1,
                            !.found = Found(apu)]
    /\ UNCHANGED <<istate, timerVars, mbcVars, cpuVars, ppuVars>>

NextApu ==
    \/ \E w \in ApuWrites : ApuWrite(w[1], w[2])
    \/ \E timer_div \in {\h0000, \h1000} : ApuCycle(timer_div, MaxApuCycles)

SpecApu == InitApu /\ [][NextApu]_vars

(***************************************************************************)
(* SpecLength: the T-cycles of the APU after channel 1 was triggered with  *)
(* its length timer enabled (NR12 = 0xF0, NR14 = 0xC0).                    *)
(***************************************************************************)
MaxLengthCycles == 256

InitLength ==
    /\ apu = APU_mem_write(APU_mem_write(APU_new, \hFF12, \hF0), \hFF14, \hC0)
    /\ aobs = [op |-> "write", address |-> \hFF14, value |-> \hC0,
               writes |-> 2, cycles |-> 0,
               found |-> Found(APU_mem_write(APU_new, \hFF12, \hF0))]
    /\ istate = InterruptState_new
    /\ IdleTimer
    /\ IdleMbc
    /\ IdleCpu
    /\ IdlePpu

NextLength ==
    \E timer_div \in {\h0000, \h1000} : ApuCycle(timer_div, MaxLengthCycles)

SpecLength == InitLength /\ [][NextLength]_vars

(***************************************************************************)
(* SpecLfsr: NoiseChannel::update_lfsr applied again and again to a noise  *)
(* channel that was just triggered, in long and in short mode, with the    *)
(* shortest pace (NR43 = 0x00 or 0x08).                                    *)
(***************************************************************************)
MaxLfsrSteps == 32768

InitLfsr ==
    /\ \E nr43 \in {\h00, \h08} :
          apu = APU_mem_write(APU_mem_write(APU_mem_write(
                    APU_new, \hFF21, \hF0), \hFF22, nr43), \hFF23, \h80)
    /\ aobs = [op |-> "trigger", steps |-> 0]
    /\ istate = InterruptState_new
    /\ IdleTimer
    /\ IdleMbc
    /\ IdleCpu
    /\ IdlePpu

LfsrStep ==
    /\ aobs.steps < MaxLfsrSteps
    /\ apu' = [apu EXCEPT !.noise_channel = update_lfsr(@)]
    /\ aobs' = [op |-> "update_lfsr", steps |-> aobs.steps + 1]
    /\ UNCHANGED <<istate, timerVars, mbcVars, cpuVars, ppuVars>>

SpecLfsr == InitLfsr /\ [][LfsrStep]_vars


(***************************************************************************)
(* SpecSequencer: the timer and the APU in the T-cycles of CPU::cycle      *)
(* (src/cpu.rs:53-71), with the writes of the CPU to DIV and to NR52.      *)
(* A T-cycle steps the timer and hands the APU the divider the step left.  *)
(* CPU::execute makes its bus accesses and then calls cycle(n), which runs *)
(* 4 * n T-cycles: a write falls between two M-cycles, at most one write   *)
(* of an instruction reaches these registers, and the divider is 0 at the  *)
(* start (Timer::new) and after a write to DIV, so it is a multiple of 4   *)
(* whenever a write is made.  The PPU part of the T-cycle reads and writes *)
(* neither the timer nor the APU and is left out.  The four channels were  *)
(* triggered with their length timers enabled and with sweep and envelope  *)
(* paces of 2, so that every tick of the sequencer shows in a channel.     *)
(* tcyc counts the T-cycles and twrites the writes of a run.               *)
(***************************************************************************)
MaxSeqCycles == 12
MaxSeqWrites == 2

\* the writes that set the four channels up
SeqSetup ==
    <<<<\hFF10, \h21>>, <<\hFF12, \hF2>>, <<\hFF14, \hC0>>,
      <<\hFF17, \hF2>>, <<\hFF19, \hC0>>,
      <<\hFF1A, \h80>>, <<\hFF1E, \hC0>>,
      <<\hFF21, \hF2>>, <<\hFF23, \hC0>>>>

RECURSIVE APU_written(_, _)
APU_written(a, writes) ==
    IF writes = <<>> THEN a
    ELSE APU_written(APU_mem_write(a, Head(writes)[1], Head(writes)[2]),
                     Tail(writes))

\* dividers shortly before bit 12 rises, falls, and falls as the divider wraps
SeqDividers == {\h0000, \h0FF8, \h1FF8, \hFFF8}
\* values of div_apu before a tick of no unit, of the length timers, of the
\* sweep too and of the envelopes too, the last one by wrapping
SeqDivApus == {0, 1, 3, 7, 255}

SeqWrites == {<<\hFF04, \h5A>>, <<\hFF26, \h00>>, <<\hFF26, \h80>>}

InitSequencer ==
    /\ \E d \in SeqDividers, n \in SeqDivApus :
          /\ timer = Timer_aged(d)
          /\ apu = [APU_written(APU_new, SeqSetup)
                      EXCEPT !.div_apu = n, !.last_div_bit = Bit(d, 12) = 1]
    /\ aobs = [op |-> "new", address |-> 0, value |-> 0, falls |-> 0,
               incs |-> 0, before |-> APU_new]
    /\ istate = InterruptState_new
    /\ tcyc = 0
    /\ twrites = 0
    /\ tobs = Idle
    /\ IdleMbc
    /\ IdleCpu
    /\ IdlePpu

\* CPU::write to DIV or to NR52, between two M-cycles; falls counts the
\* 1-to-0 transitions of bit 12 of the divider
SeqWrite(address, value) ==
    /\ twrites < MaxSeqWrites
    /\ tcyc % 4 = 0
    /\ aobs.op # "write"
    /\ IF address = \hFF04
       THEN timer' = Timer_mem_write(timer, address, value) /\ apu' = apu
       ELSE apu' = APU_mem_write(apu, address, value) /\ timer' = timer
    /\ aobs' = [aobs EXCEPT !.op = "write", !.address = address,
                            !.value = value,
                            !.falls = IF Bit(timer.div, 12) = 1
                                         /\ Bit(timer'.div, 12) = 0
                                      THEN @ + 1 ELSE @,
                            !.before = apu]
    /\ twrites' = twrites + 1
    /\ UNCHANGED <<istate, tcyc, tobs, mbcVars, cpuVars, ppuVars>>

\* one T-cycle of CPU::cycle; incs counts the increments of div_apu
SeqCycle ==
    /\ tcyc < MaxSeqCycles
    /\ LET t1 == Timer_cycle(timer)
       IN  /\ timer' = t1
           /\ istate' = IF t1.request_interrupt
                        THEN request_interrupt(istate, TIMER)
                        ELSE istate
           /\ apu' = APU_cycle(apu, t1.div)
    /\ aobs' = [aobs EXCEPT !.op = "cycle", !.address = 0, !.value = 0,
                            !.falls = IF Bit(timer.div, 12) = 1
                                         /\ Bit(timer'.div, 12) = 0
                                      THEN @ + 1 ELSE @,
                            !.incs = IF apu'.div_apu = apu.div_apu
                                     THEN @ ELSE @ + 1,
                            !.before = apu]
    /\ tcyc' = tcyc + 1
    /\ UNCHANGED <<twrites, tobs, mbcVars, cpuVars, ppuVars>>

NextSequencer ==
    \/ \E w \in SeqWrites : SeqWrite(w[1], w[2])
    \/ SeqCycle

SpecSequencer == InitSequencer /\ [][NextSequencer]_vars


(***************************************************************************)
(* SpecWave: the T-cycles of the APU after the wave channel was triggered  *)
(* with its DAC on, the period 0x7FF (the wave pointer advances at every   *)
(* second T-cycle) and a wave RAM whose 32 nibbles tell their place.       *)
(***************************************************************************)
MaxWaveCycles == 70

\* wave RAMs: byte i holds i in its high and 15 - i in its low nibble, or
\* the same with the nibbles exchanged
WaveRams ==
    {[i \in 0..15 |-> 16 * i + (15 - i)], [i \in 0..15 |-> 16 * (15 - i) + i]}

\* the writes that fill wave RAM and trigger the channel at an output level
WaveSetup(ram, level) ==
    [i \in 1..16 |-> <<\hFF30 + (i - 1), ram[i - 1]>>]
        \o <<<<\hFF1A, \h80>>, <<\hFF1C, 32 * level>>, <<\hFF1D, \hFF>>,
             <<\hFF1E, \h87>>>>

InitWave ==
    /\ \E ram \in WaveRams, level \in 1..3 :
          apu = APU_written(APU_new, WaveSetup(ram, level))
    /\ aobs = [op |-> "write", address |-> \hFF1E, value |-> \h87,
               writes |-> 20, cycles |-> 0, found |-> Found(APU_new)]
    /\ istate = InterruptState_new
    /\ IdleTimer
    /\ IdleMbc
    /\ IdleCpu
    /\ IdlePpu

NextWave ==
    \E timer_div \in {\h0000, \h1000} : ApuCycle(timer_div, MaxWaveCycles)

SpecWave == InitWave /\ [][NextWave]_vars


(***************************************************************************)
(* SpecAudio: the ring between APU::cycle, which pushes the two samples of *)
(* a sample instant with two calls of try_push (core/src/apu.rs:780-783),  *)
(* and the callback of the output stream on the audio thread of the host,  *)
(* which takes one value with every try_pop (wasm/src/audio.rs:80-91).     *)
(* Each call is one step: the ring is the one structure the two threads    *)
(* share, and a call of one thread may fall between any two calls of the   *)
(* other.  A sample is written <<instant, side>>.  apu holds the ring and  *)
(* where the producer stands, aobs what the consumer has received.         *)
(***************************************************************************)
MaxInstants == 4
MaxRingFrames == 2

\* init_buffer: the capacity the front end asks for is a whole number of
\* frames (wasm/src/audio.rs:33-34)
sample_capacity == MaxRingFrames * 2

\* Producer::try_push: the value is dropped when the ring is full
try_push(buffer, value) ==
    IF Len(buffer) < sample_capacity THEN Append(buffer, value) ELSE buffer

InitAudio ==
    /\ apu = [buffer |-> <<>>, instant |-> 0, pushed |-> "right"]
    /\ aobs = [op |-> "init_buffer", consumed |-> <<>>, late |-> FALSE]
    /\ istate = InterruptState_new
    /\ IdleTimer
    /\ IdleMbc
    /\ IdleCpu
    /\ IdlePpu

\* APU::cycle at a sample instant with two output channels: the push of the
\* left output, and as a step of its own the push of the right output
PushSample ==
    /\ \/ /\ apu.pushed = "right"
          /\ apu.instant < MaxInstants
          /\ apu' = [apu EXCEPT !.instant = @ + 1, !.pushed = "left",
                        !.buffer = try_push(@, <<apu.instant + 1, "left">>)]
       \/ /\ apu.pushed = "left"
          /\ apu' = [apu EXCEPT !.pushed = "right",
                        !.buffer = try_push(@, <<apu.instant, "right">>)]
    /\ aobs' = [aobs EXCEPT !.op = "try_push"]
    /\ UNCHANGED <<istate, timerVars, mbcVars, cpuVars, ppuVars>>

\* one try_pop of the stream callback: a value, or None and the last sample
\* is played again
PopSample ==
    /\ IF apu.buffer # <<>>
       THEN /\ apu' = [apu EXCEPT !.buffer = Tail(@)]
            /\ aobs' = [aobs EXCEPT !.op = "try_pop",
                            !.consumed = Append(@, Head(apu.buffer))]
       ELSE /\ ~aobs.late
            /\ apu' = apu
            /\ aobs' = [aobs EXCEPT !.op = "try_pop", !.late = TRUE]
    /\ UNCHANGED <<istate, timerVars, mbcVars, cpuVars, ppuVars>>

NextAudio ==
    \/ PushSample
    \/ PopSample

SpecAudio == InitAudio /\ [][NextAudio]_vars


(***************************************************************************)
(* The scanlines of the PPU (core/src/ppu.rs:241-512).                     *)
(***************************************************************************)
\* PPU::update_mode
update_mode(p, mode) ==
    [p EXCEPT !.mode = mode,
              !.interrupt_request =
                  IF \/ mode = "OAMScan" /\ intersects(p.stat_enable, STAT_MODE2)
                     \/ mode = "VBlank" /\ intersects(p.stat_enable, STAT_MODE1)
                     \/ mode = "HBlank" /\ intersects(p.stat_enable, STAT_MODE0)
                  THEN BitOr(@, LCD) ELSE @]

get_palette_color(col_id, palette) == (palette \div Pow2(2 * col_id)) % 4

get_tile_index(p, x, y, tile_map) ==
    RamCell(p.vram, (IF tile_map THEN \h1C00 ELSE \h1800)
                        + ((y \div 8) * 32) + (x \div 8))

get_tile_color(p, x, y, tile_index, addressing_mode) ==
    LET bits(byte_index) ==
            Bit(RamCell(p.vram, byte_index), 7 - (x % 8))
                + (2 * Bit(RamCell(p.vram, byte_index + 1), 7 - (x % 8)))
    IN  bits((16 * tile_index) + (2 * (y % 8))
                + (IF addressing_mode /\ tile_index < 128 THEN \h1000 ELSE 0))


\* the loop of get_sprites from sprite i on: the sprites whose rows hold
\* obj_y are pushed in OAM order until there are 10
RECURSIVE scan_oam(_, _, _, _, _)
scan_oam(oam, obj_y, sprite_height, i, sprites) ==
    IF i = 40 \/ Len(sprites) = 10 THEN sprites
    ELSE scan_oam(oam, obj_y, sprite_height, i + 1,
                  IF /\ obj_y < Min(oam[i].y + sprite_height, 255)
                     /\ obj_y >= oam[i].y
                  THEN Append(sprites, oam[i])
                  ELSE sprites)

\* a sort of the first n sprites that puts a sprite before those of its x
RECURSIVE sort_by_x_ties_reversed(_, _)
sort_by_x_ties_reversed(sprites, n) ==
    LET place(sorted, s, k) ==
            SubSeq(sorted, 1, k) \o <<s>> \o SubSeq(sorted, k + 1, Len(sorted))
        insert(sorted, s) ==
            place(sorted, s,
                  Cardinality({k \in 1..Len(sorted) : sorted[k].x < s.x}))
    IN  IF n = 0 THEN <<>>
        ELSE insert(sort_by_x_ties_reversed(sprites, n - 1), sprites[n])

\* sort_by_key(|sprite| sprite.x), a stable sort, of the first n sprites
RECURSIVE sort_by_x(_, _)
sort_by_x(sprites, n) ==
    LET place(sorted, s, k) ==
            SubSeq(sorted, 1, k) \o <<s>> \o SubSeq(sorted, k + 1, Len(sorted))
        insert(sorted, s) ==
            place(sorted, s,
                  Cardinality({k \in 1..Len(sorted) : sorted[k].x <= s.x}))
    IN  IF n = 0 THEN <<>>
        ELSE insert(sort_by_x(sprites, n - 1), sprites[n])

get_sprites(p, y, sprite_height) ==
    LET sorted(sprites) == sort_by_x(sprites, Len(sprites))
    IN  sorted(scan_oam(p.oam, (y + 16) % 256, sprite_height, 0, <<>>))

\* the colour ID a sprite of the line has at column x of line y, 0 where
\* the sprite does not reach (the body of the sprite loop of draw_scanline)
sprite_color_id(p, sprite, x, y) ==
    LET sprite_height == IF intersects(p.lcdc, LCDC_OBJ_SIZE) THEN 16 ELSE 8
        flipped(flip, last, v) == IF Bit(sprite.flags, flip) = 1 THEN last - v ELSE v
        tile(tile_x, tile_y) ==
            IF ~intersects(p.lcdc, LCDC_OBJ_SIZE)
            THEN get_tile_color(p, tile_x, tile_y, sprite.tile_index, FALSE)
            ELSE IF tile_y >= 8
            THEN get_tile_color(p, tile_x, tile_y - 8,
                                ((sprite.tile_index \div 2) * 2) + 1, FALSE)
            ELSE get_tile_color(p, tile_x, tile_y,
                                (sprite.tile_index \div 2) * 2, FALSE)
    IN  IF x + 8 < Min(sprite.x + 8, 255) /\ x + 8 >= sprite.x
        THEN tile(flipped(5, 7, (x + 8 - sprite.x) % 8),
                  flipped(6, sprite_height - 1,
                          (y + 16 - sprite.y) % sprite_height))
        ELSE 0

\* the colour draw_scanline hands to set_pixel for column x of line y
pixel_color(p, sprites, x, y) ==
    LET hits ==
            IF intersects(p.lcdc, LCDC_OBJ_ENABLE)
            THEN {k \in 1..Len(sprites) :
                    sprite_color_id(p, sprites[k], x, y) # 0}
            ELSE {}
        sprite_col(sprite) ==
            get_palette_color(sprite_color_id(p, sprite, x, y),
                              IF Bit(sprite.flags, 4) = 1
                              THEN p.palettes.obj1 ELSE p.palettes.obj0)
        covered(col_id, sprite) ==
            IF col_id = 0 THEN sprite_col(sprite)
            ELSE get_palette_color(col_id, p.palettes.bg)
        in_window ==
            /\ intersects(p.lcdc, LCDC_WINDOW_ENABLE)
            /\ x >= p.win_x /\ y >= p.win_y
        tile_col_id(tx, ty, tile_map) ==
            get_tile_color(p, tx, ty, get_tile_index(p, tx, ty, tile_map),
                           ~intersects(p.lcdc, LCDC_TILE_DATA_AREA))
        background_col_id ==
            IF in_window
            THEN tile_col_id(x - p.win_x, p.win_line,
                             intersects(p.lcdc, LCDC_WINDOW_TILE_MAP))
            ELSE tile_col_id((x + p.bg_x) % 256, (y + p.bg_y) % 256,
                             intersects(p.lcdc, LCDC_BG_TILE_MAP))
        behind(sprite) ==
            IF Bit(sprite.flags, 7) = 0 THEN sprite_col(sprite)
            ELSE IF ~intersects(p.lcdc, LCDC_BG_WINDOW_ENABLE)
            THEN sprite_col(sprite)
            ELSE covered(background_col_id, sprite)
    IN  IF hits # {}
        THEN behind(sprites[CHOOSE k \in hits : \A j \in hits : k <= j])
        ELSE IF ~intersects(p.lcdc, LCDC_BG_WINDOW_ENABLE)
        THEN get_palette_color(0, p.palettes.bg)
        ELSE get_palette_color(background_col_id, p.palettes.bg)

\* a set_pixel that writes while the PPU is Starting too
set_pixel_skipped_never(state) == FALSE

\* PPU::set_pixel returns before it writes while the state is Starting
set_pixel_skipped(state) == state = "Starting"

\* PPU::draw_scanline with set_pixel: the pixels of line y of the next
\* buffer, and the line counter of the window
draw_scanline(p, y) ==
    LET line(sprites) ==
            {t \in {<<x, y, pixel_color(p, sprites, x, y)>> : x \in 0..159} :
                t[3] # 0}
    IN  [p EXCEPT
            !.display.next =
                IF set_pixel_skipped(p.state) THEN @
                ELSE {t \in @ : t[2] # y}
                        \cup line(get_sprites(
                                 p, y, IF intersects(p.lcdc, LCDC_OBJ_SIZE)
                                       THEN 16 ELSE 8)),
            !.win_line =
                IF /\ intersects(p.lcdc, LCDC_WINDOW_ENABLE)
                   /\ p.win_x < 160 /\ p.win_y <= y
                THEN (@ + 1) % 256 ELSE @]

\* a scanline of 457 T-cycles
line_ends_a_cycle_late(lx) == ~(lx < 456)

\* PPU::cycle: the T-cycle that finds lx at 455 ends the scanline
line_ends(lx) == ~(lx < 455)

\* PPU::cycle
PPU_cycle(p) ==
    LET lyc_check(s) ==
            IF intersects(s.stat_enable, STAT_LYC) /\ s.lyc = s.ly
            THEN [s EXCEPT !.interrupt_request = BitOr(@, LCD)] ELSE s
        next_line(s) == lyc_check([s EXCEPT !.ly = (@ + 1) % 256])
        started(s) ==
            IF s.state = "Starting" THEN [s EXCEPT !.state = "Active"] ELSE s
        swapped(s) ==
            [s EXCEPT !.display = [cur |-> @.next, next |-> @.cur]]
        column(s) ==
            IF s.mode = "VBlank" THEN s
            ELSE IF s.lx = 80 THEN update_mode(s, "Drawing")
            ELSE IF s.lx = 80 + 172 THEN update_mode(s, "HBlank")
            ELSE s
        line(s) ==
            CASE s.ly \in 0..143 ->
                    next_line(draw_scanline(update_mode(s, "OAMScan"), s.ly))
              [] s.ly = 144 ->
                    next_line(swapped(update_mode(
                        [s EXCEPT !.win_line = 0,
                                  !.interrupt_request = BitOr(@, VBLANK)],
                        "VBlank")))
              [] s.ly = 153 ->
                    started(update_mode([s EXCEPT !.ly = 0], "OAMScan"))
              [] OTHER -> next_line(s)
        enabled(s) ==
            IF ~line_ends(s.lx) THEN column([s EXCEPT !.lx = @ + 1])
            ELSE line([s EXCEPT !.lx = 0])
    IN  IF p.state = "Disabled" THEN [p EXCEPT !.interrupt_request = 0]
        ELSE enabled([p EXCEPT !.interrupt_request = 0])

(***************************************************************************)
(* SpecPpu: T-cycles of the PPU and register writes of the CPU, from       *)
(* power on and from later points of the first two frames.                 *)
(***************************************************************************)
MaxPpuWrites == 3
MaxPpuCycles == 6

\* the PPU a program has set up at power on: a tile with one pixel of
\* colour ID 1, the identity palette, LCDC = 0x91 and every STAT source on
PPU_set_up ==
    PPU_mem_write(PPU_mem_write(PPU_mem_write(PPU_mem_write(
        PPU_new("core"), \h8000, \h80), \hFF47, \hE4), \hFF40, \h91),
        \hFF41, \h78)

\* the pixels of the next buffer after lines 0..n-1 of the set up PPU were
\* drawn (its window is off: the lines do not depend on each other)
lines_drawn(n) ==
    UNION {draw_scanline(PPU_set_up, y).display.next : y \in 0..(n - 1)}

\* the set up PPU after `frames` whole frames, ly lines and lx T-cycles of
\* PPU::cycle, lx not 0, 80 or 252
PPU_aged(frames, ly, lx) ==
    [PPU_set_up EXCEPT
            !.ly = ly, !.lx = lx,
            !.mode = IF ly >= 145 THEN "VBlank"
                     ELSE IF lx < 80 THEN "OAMScan"
                     ELSE IF lx < 252 THEN "Drawing" ELSE "HBlank",
            !.display =
                IF ly <= 144
                THEN [cur |-> IF frames = 0 THEN {} ELSE lines_drawn(144),
                      next |-> lines_drawn(ly)]
                ELSE [cur |-> lines_drawn(144),
                      next |-> IF frames = 0 THEN {} ELSE lines_drawn(144)]]

PpuStarts ==
    {<<0, 0, 453>>, <<0, 143, 453>>, <<0, 144, 453>>, <<1, 9, 77>>,
     <<1, 9, 249>>, <<1, 9, 453>>, <<1, 153, 453>>}

PpuWrites ==
    {<<\hFF40, \h11>>, <<\hFF40, \h91>>, <<\hFF40, \h00>>, <<\hFF47, \h1B>>,
     <<\hFF45, \h01>>, <<\hFF4A, \h00>>, <<\hFF41, \h40>>, <<\hFF41, \h08>>}

InitPpu ==
    /\ \/ ppu = PPU_set_up
       \/ \E s \in PpuStarts : ppu = PPU_aged(s[1], s[2], s[3])
    /\ pobs = [op |-> "new", address |-> 0, value |-> 0, writes |-> 0,
               cycles |-> 0, lcd_off |-> FALSE, requested |-> 0,
               found |-> {}]
    /\ cpu = Idle
    /\ cobs = Idle
    /\ istate = InterruptState_new
    /\ IdleTimer
    /\ IdleMbc
    /\ IdleApu

\* CPU::write to a register of the PPU (PPU::mem_write); lcd_off holds from
\* a write of LCDC with ENABLE clear to one with ENABLE set, and found are
\* the buffers that write of LCDC found with pixels of a colour but 0
PpuWrite(address, value) ==
    /\ pobs.writes < MaxPpuWrites
    /\ ppu' = PPU_mem_write(ppu, address, value)
    /\ pobs' = [pobs EXCEPT
                  !.op = "write", !.address = address, !.value = value,
                  !.writes = @ + 1, !.requested = 0,
                  !.lcd_off = IF address = \hFF40
                              THEN ~intersects(value, LCDC_ENABLE) ELSE @,
                  !.found = IF address = \hFF40
                            THEN {b \in {"cur", "next"} : ppu.display[b] # {}}
                            ELSE @]
    /\ UNCHANGED <<cpuVars, istate, timerVars, mbcVars, apuVars>>

\* the PPU's part of a T-cycle of CPU::cycle: PPU::cycle and the request
\* of the interrupts it asks for
PpuCycle ==
    /\ pobs.cycles < MaxPpuCycles
    /\ ppu' = PPU_cycle(ppu)
    /\ istate' = request_interrupt(istate, ppu'.interrupt_request)
    /\ pobs' = [pobs EXCEPT !.op = "cycle", !.address = 0, !.value = 0,
                            !.cycles = @ + 1,
                            !.requested = ppu'.interrupt_request]
    /\ UNCHANGED <<cpuVars, timerVars, mbcVars, apuVars>>

NextPpu ==
    \/ \E w \in PpuWrites : PpuWrite(w[1], w[2])
    \/ PpuCycle

SpecPpu == InitPpu /\ [][NextPpu]_vars

(***************************************************************************)
(* SpecFrame: the T-cycles of the PPU from power on through two whole      *)
(* frames, with the window shown over the whole screen, and with a write   *)
(* of LCDC that turns the LCD off, in the first or in the second frame,    *)
(* and one that turns it on again.  pobs counts the T-cycles of the run    *)
(* (cycles), those since the PPU was last enabled (enabled_for), those     *)
(* since the last request of VBLANK (since_vblank) and those spent         *)
(* disabled (off); restarted tells that the PPU was enabled by a write.    *)
(***************************************************************************)
MaxFrameCycles == 137000
MaxFrameWrites == 2
MaxOffCycles == 1

\* the T-cycles of the run at which the LCD may be turned off
FrameOffTimes == {30000, 120000}

\* the set up PPU with the window at the top left corner of the screen
PPU_windowed ==
    PPU_mem_write(PPU_mem_write(PPU_mem_write(
        PPU_set_up, \hFF4A, \h00), \hFF4B, \h07), \hFF40, \hB1)

InitFrame ==
    /\ ppu = PPU_windowed
    /\ pobs = [op |-> "new", address |-> 0, value |-> 0, writes |-> 0,
               cycles |-> 0, enabled_for |-> 0, since_vblank |-> 0,
               vblanks |-> 0, off |-> 0, restarted |-> FALSE,
               requested |-> 0, before |-> [state |-> "Active", ly |-> 0,
                                            win_line |-> 0]]
    /\ cpu = Idle
    /\ cobs = Idle
    /\ istate = InterruptState_new
    /\ IdleTimer
    /\ IdleMbc
    /\ IdleApu

\* CPU::write of LCDC with ENABLE cleared, at one of the times, or with
\* ENABLE set while the LCD is off
FrameWrite(value) ==
    /\ pobs.writes < MaxFrameWrites
    /\ IF intersects(value, LCDC_ENABLE)
       THEN ppu.state = "Disabled"
       ELSE ppu.state # "Disabled" /\ pobs.cycles \in FrameOffTimes
    /\ ppu' = PPU_mem_write(ppu, \hFF40, value)
    /\ pobs' = [pobs EXCEPT
                  !.op = "write", !.address = \hFF40, !.value = value,
                  !.writes = @ + 1, !.requested = 0,
                  !.enabled_for = 0, !.since_vblank = 0, !.vblanks = 0,
                  !.off = 0,
                  !.restarted = intersects(value, LCDC_ENABLE),
                  !.before = [state |-> ppu.state, ly |-> ppu.ly,
                              win_line |-> ppu.win_line]]
    /\ UNCHANGED <<cpuVars, istate, timerVars, mbcVars, apuVars>>

\* the PPU's part of a T-cycle of CPU::cycle
FrameCycle ==
    /\ pobs.cycles < MaxFrameCycles
    /\ ppu.state = "Disabled" => pobs.off < MaxOffCycles
    /\ ppu' = PPU_cycle(ppu)
    /\ istate' = request_interrupt(istate, ppu'.interrupt_request)
    /\ pobs' = [pobs EXCEPT
                  !.op = "cycle", !.address = 0, !.value = 0,
                  !.cycles = @ + 1,
                  !.enabled_for = IF ppu.state = "Disabled" THEN @ ELSE @ + 1,
                  !.off = IF ppu.state = "Disabled" THEN @ + 1 ELSE @,
                  !.since_vblank =
                      IF ppu.state = "Disabled" THEN @
                      ELSE IF intersects(ppu'.interrupt_request, VBLANK)
                      THEN 0 ELSE @ + 1,
                  !.vblanks = IF intersects(ppu'.interrupt_request, VBLANK)
                              THEN @ + 1 ELSE @,
                  !.requested = ppu'.interrupt_request,
                  !.before = [state |-> ppu.state, ly |-> ppu.ly,
                              win_line |-> ppu.win_line]]
    /\ UNCHANGED <<cpuVars, timerVars, mbcVars, apuVars>>

NextFrame ==
    \/ \E value \in {\h31, \hB1} : FrameWrite(value)
    \/ FrameCycle

SpecFrame == InitFrame /\ [][NextFrame]_vars

(***************************************************************************)
(* SpecTick: whole T-cycles of CPU::cycle (src/cpu.rs:53-71): the PPU, the *)
(* timer and the APU in turn, with their requests put into IF.  The runs   *)
(* start shortly before the PPU enters VBlank, line 0 or line 144, with    *)
(* the timer shortly before TIMA overflows and bit 12 of the divider       *)
(* falls, and with a request of the joypad in IF or none.  The start of an *)
(* OAM DMA transfer at the head of the T-cycle writes OAM only and is left *)
(* out: no transfer is asked for.  pobs holds the T-cycles of the run and  *)
(* IF, the divider and div_apu as the last T-cycle found them.             *)
(***************************************************************************)
MaxTickCycles == 12

\* the T-cycle with the APU stepped on the divider the timer had before
CPU_t_cycle_apu_first(m) ==
    LET ppu_cycled == PPU_cycle(m.ppu)
        ppu_requested == request_interrupt(m.is, ppu_cycled.interrupt_request)
        timer_cycled == Timer_cycle(m.timer)
    IN  [ppu |-> ppu_cycled,
         timer |-> timer_cycled,
         is |-> IF timer_cycled.request_interrupt
                THEN request_interrupt(ppu_requested, TIMER)
                ELSE ppu_requested,
         apu |-> APU_cycle(m.apu, m.timer.div)]

\* the body of the loop of CPU::cycle: one T-cycle of the system
CPU_t_cycle(m) ==
    LET ppu_cycled == PPU_cycle(m.ppu)
        ppu_requested == request_interrupt(m.is, ppu_cycled.interrupt_request)
        timer_cycled == Timer_cycle(m.timer)
    IN  [ppu |-> ppu_cycled,
         timer |-> timer_cycled,
         is |-> IF timer_cycled.request_interrupt
                THEN request_interrupt(ppu_requested, TIMER)
                ELSE ppu_requested,
         apu |-> APU_cycle(m.apu, timer_cycled.div)]

TickStarts == {<<0, 143, 451>>, <<0, 144, 451>>, <<1, 153, 451>>}
TickDividers == \h1FF4..\h1FFF

InitTick ==
    /\ \E s \in TickStarts : ppu = PPU_aged(s[1], s[2], s[3])
    /\ \E d \in TickDividers :
          /\ timer = [Timer_running EXCEPT !.div = d,
                                           !.previous_and = Bit(d, 3) = 1]
          /\ apu = [APU_written(APU_new, SeqSetup)
                      EXCEPT !.div_apu = 7, !.last_div_bit = Bit(d, 12) = 1]
    /\ \E iflag \in {\h00, JOYPAD} :
          istate = [ime |-> TRUE, ie |-> \h1F, iflag |-> iflag]
    /\ pobs = [op |-> "new", cycles |-> 0,
               before |-> [iflag |-> 0, div |-> 0, div_apu |-> 0]]
    /\ aobs = Idle
    /\ tcyc = 0 /\ twrites = 0 /\ tobs = Idle
    /\ IdleMbc
    /\ IdleCpu

TickCycle ==
    /\ pobs.cycles < MaxTickCycles
    /\ LET cycled(m) ==
               /\ ppu' = m.ppu
               /\ timer' = m.timer
               /\ apu' = m.apu
               /\ istate' = m.is
       IN  cycled(CPU_t_cycle([ppu |-> ppu, timer |-> timer, apu |-> apu,
                               is |-> istate]))
    /\ pobs' = [op |-> "cycle", cycles |-> pobs.cycles + 1,
                before |-> [iflag |-> istate.iflag, div |-> timer.div,
                            div_apu |-> apu.div_apu]]
    /\ UNCHANGED <<aobs, tcyc, twrites, tobs, mbcVars, cpuVars>>

SpecTick == InitTick /\ [][TickCycle]_vars

(***************************************************************************)
(* SpecSprites: get_sprites on OAM contents with up to 39 sprites on a     *)
(* line and with sprites of equal x.                                       *)
(***************************************************************************)
\* OAM contents: sprite i is on rows top..top+7 (or +15) unless i is a
\* multiple of gap, and its x takes one of `columns` values in turn
OamContents ==
    {[i \in 0..39 |->
        OAMSprite_from(IF i % gap = 0 THEN 0 ELSE top,
                       8 * (((40 - i) * step) % columns), i, 0)] :
        gap \in {2, 3, 7, 41}, top \in {16, 21, 152},
        step \in {1, 3}, columns \in {1, 3, 11}}

InitSprites ==
    /\ \E oam \in OamContents : ppu = [PPU_new("core") EXCEPT !.oam = oam]
    /\ pobs = [op |-> "new", y |-> 0, sprite_height |-> 0, sprites |-> <<>>]
    /\ cpu = Idle
    /\ cobs = Idle
    /\ istate = InterruptState_new
    /\ IdleTimer
    /\ IdleMbc
    /\ IdleApu

GetSprites(y, sprite_height) ==
    /\ pobs' = [op |-> "get_sprites", y |-> y,
                sprite_height |-> sprite_height,
                sprites |-> get_sprites(ppu, y, sprite_height)]
    /\ UNCHANGED <<ppu, cpuVars, istate, timerVars, mbcVars, apuVars>>

NextSprites ==
    \E y \in {0, 5, 8, 13, 20, 136, 143} : \E sprite_height \in {8, 16} :
        GetSprites(y, sprite_height)

SpecSprites == InitSprites /\ [][NextSprites]_vars

(***************************************************************************)
(* SpecDma: OAM DMA of core: writes of the CPU to 0xFF46 and to the memory *)
(* the transfer reads, and T-cycles.  CPU::cycle of core, which takes the  *)
(* request of PPU::mem_write, is not among the sources: it is modelled     *)
(* after the specification ("writing to 0xFF46 schedules a 160-byte        *)
(* transfer", "instantaneous copy at the scheduled tick") at the place     *)
(* CPU::cycle of src/cpu.rs starts its transfer, ahead of PPU::cycle.      *)
(***************************************************************************)
MaxDmaWrites == 3
MaxDmaCycles == 4

\* an oam_dma that takes sprite i from the 4 bytes at source + i
oam_dma_bytewise(address) ==
    [sprite_index \in 0..39 |->
        LET sprite_address == ((address * \h100) + sprite_index) % 65536
        IN  OAMSprite_from(Bus_read(sprite_address),
                           Bus_read(sprite_address + 1),
                           Bus_read(sprite_address + 2),
                           Bus_read(sprite_address + 3))]

\* CPU::oam_dma: the OAM after the transfer (a sprite read from OAM itself
\* is read before it is stored, so every read sees the bus of before)
oam_dma(address) ==
    [sprite_index \in 0..39 |->
        LET sprite_address == ((address * \h100) + (sprite_index * 4)) % 65536
        IN  OAMSprite_from(Bus_read(sprite_address),
                           Bus_read(sprite_address + 1),
                           Bus_read(sprite_address + 2),
                           Bus_read(sprite_address + 3))]

\* work RAM with a byte pattern at 0xC000-0xC09F and at 0xDD00-0xDD9F
DmaMemory ==
    {<<\hC000 + i, ((7 * i) + 1) % 256>> : i \in 0..159}
    \cup {<<\hDD00 + i, 255 - i>> : i \in 0..159}

DmaStarts == {<<0, 144, 453>>, <<1, 9, 77>>, <<1, 153, 453>>}

DmaWrites ==
    {<<\hFF46, \h80>>, <<\hFF46, \hC0>>, <<\hFF46, \hE0>>, <<\hFF46, \hFD>>,
     <<\hFF46, \hFE>>, <<\hC003, \h5A>>, <<\h8002, \h33>>, <<\hFF40, \h11>>}

InitDma ==
    /\ \E s \in DmaStarts : ppu = PPU_aged(s[1], s[2], s[3])
    /\ pobs = [op |-> "new", address |-> 0, value |-> 0, writes |-> 0,
               cycles |-> 0, pending |-> FALSE, requests |-> 0,
               copies |-> 0, vblanks |-> 0]
    /\ cpu = [mem |-> DmaMemory]
    /\ cobs = Idle
    /\ istate = InterruptState_new
    /\ IdleTimer
    /\ IdleMbc
    /\ IdleApu

\* CPU::write for the PPU and the memory
DmaWrite(address, value) ==
    /\ pobs.writes < MaxDmaWrites
    /\ IF IsPpuAddress(address)
       THEN /\ ppu' = PPU_mem_write(ppu, address, value)
            /\ cpu' = cpu
       ELSE /\ cpu' = [mem |-> Memory_mem_write(
                                  [mem |-> cpu.mem, mbc |-> mbc],
                                  address, value).mem]
            /\ ppu' = ppu
    /\ pobs' = [pobs EXCEPT
                    !.op = "write", !.address = address, !.value = value,
                    !.writes = @ + 1,
                    !.requests = IF address = \hFF46
                                    /\ ~ppu.oam_dma_request
                                 THEN @ + 1 ELSE @]
    /\ UNCHANGED <<cobs, istate, timerVars, mbcVars, apuVars>>

\* the PPU's part of a T-cycle of CPU::cycle: the transfer a write of
\* 0xFF46 asked for, PPU::cycle and the request of its interrupts
DmaCycle ==
    /\ pobs.cycles < MaxDmaCycles
    /\ LET transferred ==
               IF ppu.oam_dma_request
               THEN [ppu EXCEPT !.oam = oam_dma(ppu.oam_dma_source),
                                !.oam_dma_request = FALSE]
               ELSE ppu
       IN  /\ ppu' = PPU_cycle(transferred)
           /\ istate' = request_interrupt(istate, ppu'.interrupt_request)
           /\ pobs' = [pobs EXCEPT
                           !.op = "cycle", !.address = 0, !.value = 0,
                           !.cycles = @ + 1,
                           !.pending = ppu.oam_dma_request,
                           !.copies = IF ppu.oam_dma_request
                                      THEN @ + 1 ELSE @,
                           !.vblanks = IF ppu'.mode = "VBlank"
                                          /\ ppu.mode # "VBlank"
                                       THEN @ + 1 ELSE @]
    /\ UNCHANGED <<cpu, cobs, timerVars, mbcVars, apuVars>>

NextDma ==
    \/ \E w \in DmaWrites : DmaWrite(w[1], w[2])
    \/ DmaCycle

SpecDma == InitDma /\ [][NextDma]_vars

(***************************************************************************)
(* SpecInput: the joypad register: writes of P1 (0xFF00) that select the   *)
(* rows, and update_input with the buttons the front end reports.          *)
(***************************************************************************)
\* InputReg::new
InputReg_new ==
    [select_button |-> FALSE, select_dpad |-> FALSE, flags |-> \hFF]

\* InputReg::update: the register and whether to request the interrupt
InputReg_update(reg, input) ==
    LET pressed == BitAnd(255 - input, reg.flags)
    IN  [reg |-> [reg EXCEPT !.flags = input],
         send_interrupt |->
            IF reg.select_button THEN (pressed \div 16) > 0
            ELSE IF reg.select_dpad THEN BitAnd(pressed, \h0F) > 0
            ELSE FALSE]

\* InputReg::mem_read
InputReg_mem_read(reg) ==
    LET select_bits == (IF reg.select_button THEN 32 ELSE 0)
                       + (IF reg.select_dpad THEN 16 ELSE 0)
        input == IF reg.select_button THEN BitAnd(reg.flags, \hF0) \div 16
                 ELSE IF reg.select_dpad THEN BitAnd(reg.flags, \h0F)
                 ELSE \h0F
    IN  BitOr(select_bits, input)

\* InputReg::mem_write
InputReg_mem_write(reg, value) ==
    [reg EXCEPT !.select_button = BitAnd(value, \h20) = 0,
                !.select_dpad = BitAnd(value, \h10) = 0]

\* the buttons the front end reports: none, one of a row, one of each row,
\* whole rows, all
InputValues ==
    {\hFF, \hFE, \hF7, \hEF, \h7F, \hEE, \h77, \hF0, \h0F, \hFC, \h3F, \h00}

InitInput ==
    /\ cpu = [input |-> InputReg_new]
    /\ cobs = [op |-> "new", value |-> 0, before |-> InputReg_new,
               requested |-> FALSE, read |-> InputReg_mem_read(InputReg_new)]
    /\ istate = InterruptState_new
    /\ IdleTimer
    /\ IdleMbc
    /\ IdlePpu
    /\ IdleApu

\* CPU::write of 0xFF00
InputWrite(value) ==
    /\ cpu' = [cpu EXCEPT !.input = InputReg_mem_write(@, value)]
    /\ cobs' = [op |-> "write", value |-> value, before |-> cpu.input,
                requested |-> FALSE, read |-> InputReg_mem_read(cpu'.input)]
    /\ UNCHANGED <<istate, timerVars, mbcVars, ppuVars, apuVars>>

\* CPU::update_input
UpdateInput(input) ==
    LET updated == InputReg_update(cpu.input, input)
    IN  /\ cpu' = [cpu EXCEPT !.input = updated.reg]
        /\ istate' = IF updated.send_interrupt
                     THEN request_interrupt(istate, JOYPAD) ELSE istate
        /\ cobs' = [op |-> "update_input", value |-> input,
                    before |-> cpu.input,
                    requested |-> updated.send_interrupt,
                    read |-> InputReg_mem_read(updated.reg)]
        /\ UNCHANGED <<timerVars, mbcVars, ppuVars, apuVars>>

\* the CPU acknowledges the interrupts: a write of 0 to IF (0xFF0F)
InputAcknowledge ==
    /\ istate.iflag # 0
    /\ istate' = [istate EXCEPT !.iflag = 0]
    /\ cobs' = [cobs EXCEPT !.op = "acknowledge", !.requested = FALSE]
    /\ UNCHANGED <<cpu, timerVars, mbcVars, ppuVars, apuVars>>

NextInput ==
    \/ \E value \in {\h00, \h10, \h20, \h30} : InputWrite(value)
    \/ \E input \in InputValues : UpdateInput(input)
    \/ InputAcknowledge

SpecInput == InitInput /\ [][NextInput]_vars

(***************************************************************************)
(* Claims about the timer.                                                 *)
(***************************************************************************)
\* C1: right after a write of any value to 0xFF04 the 16-bit divider is 0
\* and a read of 0xFF04 returns 0.
C1_DivWriteClearsDivider ==
    (tobs.op = "write" /\ tobs.address = \hFF04)
        => (timer.div = 0 /\ Timer_mem_read(timer, \hFF04) = 0)

\* a write to 0xFF04 met a divider whose visible byte was not 0
C1_Witness ==
    /\ tobs.op = "write" /\ tobs.address = \hFF04
    /\ tobs.div_before >= 256 /\ tobs.div_before % 256 # 0

\* C6 as stated: 64 T-cycles after the write of TAC = 0x05 that starts a
\* timer holding TIMA = TMA = 0xFE, the TIMER bit of IF is 1 and TIMA reads
\* 0xFE.
C6_AsStated ==
    tobs.start.since = 64
        => (Bit(istate.iflag, 2) = 1 /\ Timer_mem_read(timer, \hFF05) = 254)

\* C6 amended: 64 T-cycles after that write, made by the CPU (so at a
\* divider that is a multiple of 4), the TIMER bit of IF is 1, and TIMA
\* reads 0xFE when the low four bits of the divider were 4, 8 or 12 at the
\* write; when they were 0 the second overflow happens in the 64th T-cycle,
\* its reload is still pending, and TIMA reads 0x00.
C6_TimaAfter64 ==
    tobs.start.since = 64
        => /\ Bit(istate.iflag, 2) = 1
           /\ Timer_mem_read(timer, \hFF05)
                  = (IF tobs.start.phase >= 4 THEN 254 ELSE 0)

\* 64 T-cycles have passed since the start, and the second reload is done
C6_Witness ==
    /\ tobs.start.since = 64 /\ tobs.start.phase >= 4
    /\ timer.tima = 254 /\ timer.overflow_delay = -1

\* C25: a T-cycle reloads TIMA from TMA and requests TIMER only when a
\* countdown armed by an earlier wrap of TIMA from 0xFF to 0x00 stands at
\* zero; from the timer as constructed, no reload and no request happens
\* without such a wrap.
C25_AsStated ==
    [][tobs'.op = "cycle" /\ timer'.request_interrupt =>
            tobs.armed /\ timer.overflow_delay = 0]_vars

\* C26: a write of TIMA while the countdown of an overflow is armed leaves
\* TIMA at the written value with no countdown, and from then until TIMA
\* wraps again no T-cycle reloads TIMA from TMA or requests TIMER.
C26_WriteCancelsReload ==
    /\ tobs.op = "write" /\ tobs.address = \hFF05 =>
            timer.tima = tobs.value /\ timer.overflow_delay = -1
    /\ tobs.cancelled =>
            /\ timer.overflow_delay = -1
            /\ tobs.op = "cycle" => ~timer.request_interrupt

\* TIMA was written during the countdown and T-cycles have passed the point
\* of the reload: TIMA counts on from the written value, TMA being another
C26_Witness ==
    /\ tobs.cancelled /\ tobs.op = "cycle"
    /\ timer.tma = 0 /\ timer.tima = 6
    /\ Bit(istate.iflag, 2) = 0

(***************************************************************************)
(* Claims about the cartridge.                                             *)
(***************************************************************************)
BankedKinds == {"MBC1", "MBC3", "MBC5"}

\* every sampled read of 0x4000..0x7FFF returns the byte of bank k of the
\* image at the same position in the bank
ReadsComeFromBank(m, k) ==
    \A a \in RomReadAddresses :
        /\ k * \h4000 + (a - \h4000) < m.rom_len
        /\ rom_offset(m, a) = k * \h4000 + (a - \h4000)
        /\ MBC_read(m, a) = RomAt(k * \h4000 + (a - \h4000))

\* the last bus write went to the ROM bank register that holds the whole
\* bank number: 0x2000..0x3FFF of MBC3 and of an MBC1 with at most 32
\* banks, 0x2000..0x2FFF of an MBC5 whose ninth bank bit is clear
WroteRomBank ==
    /\ mobs.op = "write"
    /\ \/ mbc.kind = "MBC3" /\ mobs.address \in \h2000..\h3FFF
       \/ mbc.kind = "MBC1" /\ mbc.rom_banks <= 32
                            /\ mobs.address \in \h2000..\h3FFF
       \/ mbc.kind = "MBC5" /\ mobs.address \in \h2000..\h2FFF

\* C7: on MBC1, MBC3 and MBC5, after a ROM bank number b >= num_banks is
\* written, reads of 0x4000..0x7FFF return the bytes of bank b mod num_banks
\* and stay inside the image.
C7_AsStated ==
    (WroteRomBank /\ mobs.value >= mbc.rom_banks)
        => ReadsComeFromBank(mbc, mobs.value % mbc.rom_banks)

\* the MBC1 cartridge with 125 ROM banks
Is125BankMbc1 == mbc.kind = "MBC1" /\ mbc.rom_len = 125 * \h4000

\* C8 as the specification states it: on the 125-bank MBC1 cartridge a write
\* of 0x00 to 0x2000 selects bank 1, of 0x20 bank 0x20, of 0x60 bank 0x60.
C8_AsStated ==
    (Is125BankMbc1 /\ mobs.op = "write" /\ mobs.address = \h2000)
        => /\ mobs.value = \h00 => ReadsComeFromBank(mbc, 1)
           /\ mobs.value = \h20 => ReadsComeFromBank(mbc, \h20)
           /\ mobs.value = \h60 => ReadsComeFromBank(mbc, \h60)

\* C8: on the 125-bank MBC1 cartridge, after a write of 0x00, 0x20 or 0x60
\* to 0x2000 the reads of 0x4000..0x7FFF come from bank 1 + 32 * r, where r
\* is the two-bit register written at 0x4000..0x5FFF: bank 1 while r is 0.
C8_ZeroLowBitsSelectBank1 ==
    (Is125BankMbc1 /\ mobs.op = "write" /\ mobs.address = \h2000
        /\ mobs.value \in {\h00, \h20, \h60})
        => /\ mbc.rom_bank = 1
           /\ ReadsComeFromBank(mbc, 1 + 32 * mbc.ram_bank)

C8_Witness ==
    /\ Is125BankMbc1
    /\ mobs.op = "write" /\ mobs.address = \h2000 /\ mobs.value = \h60
    /\ mbc.ram_bank = 3
    /\ ReadsComeFromBank(mbc, 97)

\* C9: on MBC1, MBC3 and MBC5 the cartridge RAM is enabled exactly when the
\* last write to 0x0000..0x1FFF had low nibble 0xA; while it is disabled
\* every read of 0xA000..0xBFFF returns 0xFF and a write to 0xA000..0xBFFF
\* changes no RAM byte.
C9_RamEnableLatch ==
    mbc.kind \in BankedKinds
        => /\ mbc.ram_enabled = mobs.enable_written
           /\ ~mbc.ram_enabled
                => /\ \A a \in RamReadAddresses : MBC_read(mbc, a) = \hFF
                   /\ (mobs.op = "write" /\ mobs.address \in \hA000..\hBFFF)
                        => ~mobs.ram_changed

C9_Witness ==
    /\ mbc.kind \in BankedKinds
    /\ ~mbc.ram_enabled
    /\ mbc.ram # {}
    /\ mobs.op = "write" /\ mobs.address = \hA000 /\ mobs.value = \h00
    /\ RamCell(mbc.ram, ram_write_offset(mbc, \hA000)) = \hA5

\* C10: Memory::new returns NoHeader for every image shorter than 0x0150
\* bytes, UnimplementedMBC for every header whose kind is not NoMBC, MBC1,
\* MBC3 or MBC5, and never aborts with an out-of-range access.
C10_AsStated ==
    loaded.tag # "none"
        => /\ image.len < \h0150 => loaded.tag = "NoHeader"
           /\ (image.len >= \h0150 /\ MBCType_of(image.h47) \notin SupportedMBC)
                => loaded.tag = "UnimplementedMBC"
           /\ loaded.tag # "panic_index_out_of_range"

\* C11: after set_ram with a snapshot of any length the cartridge RAM holds
\* exactly ram_banks x 8192 bytes, and get_ram returns that many bytes.
C11_AsStated ==
    mobs.op = "set_ram" => Memory_get_ram(mbc).len = 8192 * mbc.ram_banks

\* C27 as stated: on MBC1 and MBC3 cartridges the ROM bank register is at
\* least 1 in every state writes to 0x0000-0x7FFF reach.
C27_AsStated == mbc.kind \in {"MBC1", "MBC3"} => mbc.rom_bank >= 1

\* C27 amended: the register is at least 1 on MBC3 and on MBC1 with 32 or
\* more banks; on an MBC1 with fewer banks a write to 0x2000-0x3FFF leaves
\* it 0 exactly when the low five bits of the value are not all 0 and the
\* bits the bank count keeps are.
C27_RomBankZeroOnlyOnSmallMbc1 ==
    /\ mbc.kind = "MBC3" => mbc.rom_bank >= 1
    /\ mbc.kind = "MBC1" /\ mbc.rom_banks >= 32 => mbc.rom_bank >= 1
    /\ mbc.kind = "MBC1" /\ mbc.rom_banks < 32 /\ mobs.op = "write"
       /\ mobs.address \in \h2000..\h3FFF =>
            (mbc.rom_bank = 0
                <=> mobs.value % 32 # 0 /\ mobs.value % mbc.rom_banks = 0)

\* an MBC3 with 128 banks after a write whose masked bank number is 0
C27_Witness ==
    /\ mbc.kind = "MBC3" /\ mbc.rom_banks = 128
    /\ mobs.op = "write" /\ mobs.address = \h2000 /\ mobs.value = \h00
    /\ mbc.rom_bank = 1

\* C28: on MBC5 a write to 0x3000-0x3FFF makes bit 8 of the ROM bank number
\* bit 0 of the value and leaves the low 8 bits; a write to 0x2000-0x2FFF
\* leaves bit 8.
C28_AsStated ==
    [][mbc.kind = "MBC5" /\ mobs'.op = "write" =>
            /\ mobs'.address \in \h3000..\h3FFF =>
                    mbc'.rom_bank
                        = (mbc.rom_bank % 256) + (256 * (mobs'.value % 2))
            /\ mobs'.address \in \h2000..\h2FFF =>
                    mbc'.rom_bank \div 256 = mbc.rom_bank \div 256]_vars

\* the addresses of both ROM regions and of cartridge RAM that C29 reads
C29_RomAddresses == {\h0000, \h014F, \h0150, \h3FFF, \h4000, \h5A5A, \h7FFF}

\* C29: for every controller a read of 0x0000-0x7FFF whose ROM offset is at
\* or past the end of the image returns 0x00 without stopping the emulator,
\* a read of cartridge RAM past its end returns 0x00 and a write past its
\* end changes nothing.
C29_AsStated ==
    /\ \A a \in C29_RomAddresses :
            rom_offset(mbc, a) >= mbc.rom_len =>
                ~MBC_read_panics(mbc, a) /\ MBC_read(mbc, a) = 0
    /\ \A a \in RamReadAddresses :
            (mbc.kind = "NoMBC" \/ mbc.ram_enabled)
            /\ ram_read_offset(mbc, a) >= mbc.ram_len
                => MBC_read(mbc, a) = 0
    /\ mobs.op = "write" /\ mobs.address \in \hA000..\hBFFF
       /\ ram_write_offset(mbc, mobs.address) >= mbc.ram_len
            => ~mobs.ram_changed

(***************************************************************************)
(* Claims about the interpreter.                                           *)
(***************************************************************************)
\* the opcode the last instruction fetched and the byte after it
FetchedOpcode == CPU_read(cobs.before, cobs.before.reg.pc)
FetchedSecond == CPU_read(cobs.before, (cobs.before.reg.pc + 1) % 65536)

\* the condition NZ, Z, NC, C that bits 3-4 of a conditional opcode select
ConditionHolds(opcode, f) ==
    LET cc == (opcode \div 8) % 4
    IN  CASE cc = 0 -> ~intersects(f, ZERO)
          [] cc = 1 -> intersects(f, ZERO)
          [] cc = 2 -> ~intersects(f, CARRY)
          [] cc = 3 -> intersects(f, CARRY)

\* the M-cycles of the DMG instruction set tables for an opcode, the
\* second byte of a 0xCB opcode and the flags the instruction starts with
PublishedMCycles(opcode, second, f) ==
    LET x == opcode \div 64
        y == (opcode \div 8) % 8
        z == opcode % 8
        taken == ConditionHolds(opcode, f)
    IN  CASE opcode = \hCB ->
                (IF second % 8 # 6 THEN 2
                 ELSE IF second \in \h40..\h7F THEN 3 ELSE 4)
          [] opcode = \h76 -> 1
          [] x = 0 /\ z = 0 ->
                (CASE y = 0 \/ y = 2 -> 1
                   [] y = 1 -> 5
                   [] y = 3 -> 3
                   [] OTHER -> IF taken THEN 3 ELSE 2)
          [] x = 0 /\ z = 1 -> (IF y % 2 = 0 THEN 3 ELSE 2)
          [] x = 0 /\ z \in {2, 3} -> 2
          [] x = 0 /\ z \in {4, 5} -> (IF y = 6 THEN 3 ELSE 1)
          [] x = 0 /\ z = 6 -> (IF y = 6 THEN 3 ELSE 2)
          [] x = 0 /\ z = 7 -> 1
          [] x = 1 -> (IF y = 6 \/ z = 6 THEN 2 ELSE 1)
          [] x = 2 -> (IF z = 6 THEN 2 ELSE 1)
          [] x = 3 /\ z = 0 ->
                (CASE y < 4 -> (IF taken THEN 5 ELSE 2)
                   [] y = 5 -> 4
                   [] OTHER -> 3)
          [] x = 3 /\ z = 1 ->
                (CASE y % 2 = 0 -> 3
                   [] y = 1 \/ y = 3 -> 4
                   [] y = 5 -> 1
                   [] OTHER -> 2)
          [] x = 3 /\ z = 2 ->
                (CASE y < 4 -> (IF taken THEN 4 ELSE 3)
                   [] y = 4 \/ y = 6 -> 2
                   [] OTHER -> 4)
          [] x = 3 /\ z = 3 -> (IF y = 0 THEN 4 ELSE 1)
          [] x = 3 /\ z = 4 -> (IF taken THEN 6 ELSE 3)
          [] x = 3 /\ z = 5 -> (IF y = 1 THEN 6 ELSE 4)
          [] x = 3 /\ z = 6 -> 2
          [] x = 3 /\ z = 7 -> 4

ProhibitedOpcodes ==
    {\hD3, \hDB, \hDD, \hE3, \hE4, \hEB, \hEC, \hED, \hF4, \hFC, \hFD}

\* the last step was the instruction of an execute() that found no
\* interrupt pending, and it ran to its end
ExecutedWithoutInterrupt ==
    cobs.step = "exec" /\ ~cobs.pending /\ cpu.fault = "none"

\* C2: an execute step started with no pending interrupt advances the
\* cycle count by the published M-cycle count of the instruction, for every
\* opcode that is not prohibited and every 0xCB opcode (2 for a register,
\* 4 for a read-modify-write of (HL), 3 for BIT n,(HL)); a conditional
\* JR, JP, CALL or RET costs its extra M-cycles exactly when it is taken.
C2_AsStated ==
    (ExecutedWithoutInterrupt /\ FetchedOpcode \notin ProhibitedOpcodes)
        => cpu.cycles - cobs.before.cycles
             = PublishedMCycles(FetchedOpcode, FetchedSecond, cobs.before.reg.f)

\* C3: fetching a prohibited opcode ends in a failure and changes no
\* register, no stack byte and no memory: it is not executed as a jump, a
\* call or a 0xCB operation.
C3_AsStated ==
    (cobs.step = "exec" /\ FetchedOpcode \in ProhibitedOpcodes)
        => /\ cpu.fault = "panic"
           /\ cpu.reg = cobs.before.reg
           /\ cpu.mem = cobs.before.mem
           /\ mbc = cobs.before.mbc

\* C39: STOP (opcode 0x10) changes no register but PC, no flag and no byte
\* of memory, and leaves PC two bytes on: behind the opcode and the byte
\* after it.
C39_AsStated ==
    (ExecutedWithoutInterrupt /\ FetchedOpcode = \h10)
        => /\ cpu.fault = "none"
           /\ cpu.reg.pc = (cobs.before.reg.pc + 2) % 65536
           /\ [cpu.reg EXCEPT !.pc = 0] = [cobs.before.reg EXCEPT !.pc = 0]
           /\ cpu.mem = cobs.before.mem
           /\ mbc = cobs.before.mbc

\* the last step was the interrupt check of an execute()
CheckedForInterrupt == cobs.step \in {"halted", "check", "dispatch"}

\* the requests that were enabled when the last step began
PendingBefore == BitAnd(cobs.before.is.ie, cobs.before.is.iflag)

\* C4: with IME = 0, while the CPU is halted and IE & IF = 0 each step
\* advances one M-cycle and the CPU stays halted; at the first step with a
\* bit of IE & IF set the halt flag is cleared, nothing is pushed, no vector
\* is taken, IF and IME are unchanged and execution continues at the
\* instruction after HALT.
C4_HaltWakeup ==
    (CheckedForInterrupt /\ cobs.before.halt /\ ~cobs.before.is.ime)
        => IF PendingBefore = 0
           THEN /\ cpu.halt
                /\ cpu.phase = "check"
                /\ cpu.cycles = cobs.before.cycles + 1
                /\ cpu.reg = cobs.before.reg
           ELSE /\ ~cpu.halt
                /\ cpu.phase = "exec"
                /\ cpu.cycles = cobs.before.cycles
                /\ cpu.reg = cobs.before.reg
                /\ cpu.mem = cobs.before.mem
                /\ istate = cobs.before.is
                /\ cpu.reg.pc = cobs.halted_at + 1

\* a halted CPU idled for at least two M-cycles and then woke with IME = 0
C4_Witness ==
    /\ cobs.step = "check"
    /\ cobs.before.halt /\ ~cobs.before.is.ime
    /\ PendingBefore # 0
    /\ cobs.before.cycles >= 2
    /\ ~cpu.halt

\* the set bit of x with the lowest number
LowestBit(x) == CHOOSE i \in 0..4 : Bit(x, i) = 1 /\ \A j \in 0..(i - 1) : Bit(x, j) = 0

\* C5: an interrupt check with IME = 1 and IE & IF # 0 dispatches exactly
\* one interrupt, the pending one with the lowest bit number: only that bit
\* of IF is cleared, the PC of the next instruction is pushed, PC becomes
\* the vector 0x40 + 8 * bit, IME becomes false and 5 M-cycles pass.
C5_Dispatch ==
    (CheckedForInterrupt /\ cobs.before.is.ime /\ PendingBefore # 0)
        => LET bit == LowestBit(PendingBefore)
               sp == cpu.reg.sp
           IN  /\ cobs.step = "dispatch"
               /\ istate.iflag
                    = BitOr(BitClear(cobs.before.is.iflag, Pow2(bit)), cobs.raised)
               /\ istate.ie = cobs.before.is.ie
               /\ ~istate.ime
               /\ sp = (cobs.before.reg.sp - 2) % 65536
               /\ CPU_read(Machine, sp) = cobs.before.reg.pc % 256
               /\ CPU_read(Machine, sp + 1) = cobs.before.reg.pc \div 256
               /\ cpu.reg.pc = \h40 + 8 * bit
               /\ cpu.cycles = cobs.before.cycles + 5
               /\ cpu.phase = "exec"

\* TIMER, SERIAL and JOYPAD were pending and TIMER was dispatched
C5_Witness ==
    /\ cobs.step = "dispatch"
    /\ PendingBefore = \h1C
    /\ cpu.reg.pc = \h50
    /\ istate.iflag = \h18

C12_AsStated == pobs.op = "write" => Bus_read(pobs.address) = pobs.value

(***************************************************************************)
(* Claims about the scanlines of the PPU.                                  *)
(***************************************************************************)
\* C19: from a write of LCDC with ENABLE clear to the next write of LCDC
\* with ENABLE set, whatever the T-cycles and other writes in between, the
\* PPU is Disabled with ly = 0, lx = 0 and mode HBlank, no pixel of either
\* buffer has a colour but 0, and no T-cycle requests an interrupt.
C19_DisabledStaysBlank ==
    pobs.op \in {"write", "cycle"} /\ pobs.lcd_off =>
        /\ ppu.state = "Disabled"
        /\ ppu.ly = 0 /\ ppu.lx = 0
        /\ ppu.mode = "HBlank"
        /\ ppu.display.cur = {} /\ ppu.display.next = {}
        /\ pobs.requested = 0

\* LCDC was written with ENABLE clear when both buffers had pixels, with
\* every STAT source on and LYC = LY = 0, and T-cycles have passed since
C19_Witness ==
    /\ pobs.op = "cycle" /\ pobs.lcd_off
    /\ pobs.found = {"cur", "next"}
    /\ ppu.stat_enable = \h78 /\ ppu.lyc = 0
    /\ pobs.cycles >= 2

\* the sprites of OAM whose rows cover line y
OnLine(oam, y, sprite_height) ==
    {i \in 0..39 : y + 16 >= oam[i].y /\ y + 16 < oam[i].y + sprite_height}

\* the first 10 of them in OAM order
Selected(oam, y, sprite_height) ==
    {i \in OnLine(oam, y, sprite_height) :
        Cardinality({j \in OnLine(oam, y, sprite_height) : j < i}) < 10}

\* the place of sprite i among the sprites of F in the order of ascending
\* x, sprites of equal x in OAM order
Place(oam, F, i) ==
    1 + Cardinality({j \in F : \/ oam[j].x < oam[i].x
                               \/ oam[j].x = oam[i].x /\ j < i})

\* C20: get_sprites returns the first 10 sprites in OAM order whose rows
\* cover the line (all of them if there are fewer), in the order of
\* ascending x, sprites of equal x in OAM order.
C20_SpriteSelection ==
    pobs.op = "get_sprites" =>
        /\ Len(pobs.sprites) <= 10
        /\ Len(pobs.sprites)
              = Cardinality(Selected(ppu.oam, pobs.y, pobs.sprite_height))
        /\ \A i \in Selected(ppu.oam, pobs.y, pobs.sprite_height) :
              pobs.sprites[Place(ppu.oam,
                                 Selected(ppu.oam, pobs.y, pobs.sprite_height),
                                 i)] = ppu.oam[i]

\* more than 10 sprites cover the line, one that is left out has a smaller
\* x than one that is returned, and two returned sprites have the same x
C20_Witness ==
    /\ pobs.op = "get_sprites"
    /\ Len(pobs.sprites) = 10
    /\ \E i \in OnLine(ppu.oam, pobs.y, pobs.sprite_height)
                \ Selected(ppu.oam, pobs.y, pobs.sprite_height) :
          ppu.oam[i].x < pobs.sprites[10].x
    /\ \E k \in 1..9 :
          /\ pobs.sprites[k].x = pobs.sprites[k + 1].x
          /\ pobs.sprites[k].tile_index < pobs.sprites[k + 1].tile_index

\* C21: the buffer get_display_buffer returns (display.cur) changes only
\* in a T-cycle in which LY becomes 144, the buffers changing places there;
\* no other T-cycle and no register write changes it, pixel writes going
\* to the other buffer.
C21_AsStated ==
    [][ppu'.display.cur # ppu.display.cur =>
            /\ pobs'.op = "cycle"
            /\ ppu'.ly = 144
            /\ ppu'.display.cur = ppu.display.next
            /\ ppu'.display.next = ppu.display.cur]_vars

\* C22: in the state after the T-cycle that follows a write of v to 0xFF46,
\* the 160 bytes of OAM are the bus bytes at v * 0x100 .. v * 0x100 + 0x9F
\* and no request is left; the transfer has run once for each write that
\* asked for one, also when that T-cycle begins VBlank.
C22_DmaCopies ==
    pobs.op = "cycle" =>
        /\ ~ppu.oam_dma_request
        /\ pobs.copies = pobs.requests
        /\ pobs.pending =>
              \A i \in 0..159 :
                  OAM_read(ppu.oam, i)
                      = Bus_read((ppu.oam_dma_source * \h100) + i)

C22_Witness ==
    /\ pobs.op = "cycle"
    /\ pobs.pending
    /\ pobs.copies = 2
    /\ pobs.vblanks = 1
    /\ ppu.oam_dma_source = \hC0
    /\ OAM_read(ppu.oam, 3) = \h5A
    /\ OAM_read(ppu.oam, 159) = 90

\* C37: a T-cycle that changes LY to the value of LYC requests the LCD
\* interrupt if the LYC bit of STAT is set, for every value of LYC, 0 among
\* them; if the bit is clear the match requests nothing: the LCD interrupt
\* is then requested only for a mode the T-cycle enters whose bit is set.
C37_AsStated ==
    [][pobs'.op = "cycle" /\ ppu'.ly # ppu.ly /\ ppu'.ly = ppu'.lyc =>
          IF intersects(ppu'.stat_enable, STAT_LYC)
          THEN intersects(ppu'.interrupt_request, LCD)
          ELSE intersects(ppu'.interrupt_request, LCD) =>
                  \/ /\ ppu'.mode = "OAMScan"
                     /\ intersects(ppu'.stat_enable, STAT_MODE2)
                  \/ /\ ppu'.mode = "VBlank" /\ ppu.mode # "VBlank"
                     /\ intersects(ppu'.stat_enable, STAT_MODE1)]_vars

(***************************************************************************)
(* Claims about the joypad.                                                *)
(***************************************************************************)
\* the bits of the rows P1 selects: buttons in bits 4-7, d-pad in bits 0-3
SelectedBits(reg) ==
    (IF reg.select_button THEN {4, 5, 6, 7} ELSE {})
    \cup (IF reg.select_dpad THEN {0, 1, 2, 3} ELSE {})

\* C23: update_input requests JOYPAD if and only if some bit of a selected
\* row was 1 at the previous update and is 0 now, whichever rows P1
\* selects (none, d-pad, buttons, both).
C23_AsStated ==
    cobs.op = "update_input" =>
        (cobs.requested <=>
            \E b \in SelectedBits(cobs.before) :
                Bit(cobs.before.flags, b) = 1 /\ Bit(cobs.value, b) = 0)

(***************************************************************************)
(* Claims about the APU.                                                   *)
(***************************************************************************)
\* C13: in every state register writes and T-cycles reach, each of the four
\* channels is on only if its DAC is on.
C13_ChannelOnImpliesDac ==
    \A c \in 1..4 : Channels(apu)[c].channel_on => Channels(apu)[c].dac_on

\* channel 1 was on when NR12 was written with the DAC bits clear
C13_Witness ==
    /\ aobs.op = "write" /\ aobs.address = \hFF12 /\ aobs.value = \h00
    /\ 1 \in aobs.found.were_on
    /\ ~apu.square_channel_1.channel_on

\* C14: in every state register writes and T-cycles reach, a channel whose
\* length timer is enabled and equals 0 is off.
C14_AsStated ==
    \A c \in 1..4 :
        (Channels(apu)[c].length_timer_enabled
            /\ Channels(apu)[c].length_timer = 0)
        => ~Channels(apu)[c].channel_on

\* C15: while the master enable is off, a write to 0xFF10..0xFF25 leaves the
\* whole APU as it was, a write to wave RAM stores its byte and a write of
\* NR52 sets the master enable.
C15_OffWritesIgnored ==
    [][(aobs'.op = "write" /\ ~apu.on) =>
          /\ aobs'.address \in \hFF10..\hFF25 => apu' = apu
          /\ aobs'.address \in \hFF30..\hFF3F =>
                apu'.wave_channel.wave_ram[aobs'.address - \hFF30]
                    = aobs'.value
          /\ aobs'.address = \hFF26 => (apu'.on <=> Bit(aobs'.value, 7) = 1)
      ]_vars

\* NR12 was written with the DAC bits set while the master enable was off
C15_Witness ==
    /\ aobs.op = "write" /\ aobs.address = \hFF12 /\ aobs.value = \hF0
    /\ ~aobs.found.was_on
    /\ ~apu.square_channel_1.dac_on

\* C16: a write of NR52 that turns the APU from on to off leaves every
\* field of the APU at its value of APU::new, but for the master enable,
\* which is off, and the 16 bytes of wave RAM, which stay.
C16_TurnOffClears ==
    [][(aobs'.op = "write" /\ aobs'.address = \hFF26 /\ apu.on /\ ~apu'.on) =>
          apu' = [APU_new EXCEPT !.on = FALSE,
                                 !.wave_channel.wave_ram =
                                     apu.wave_channel.wave_ram]
      ]_vars

\* the APU was turned off with the wave DAC on and a byte in wave RAM
C16_Witness ==
    /\ aobs.op = "write" /\ aobs.address = \hFF26
    /\ aobs.found.was_on /\ ~apu.on
    /\ 3 \in aobs.found.dacs_were_on
    /\ apu.wave_channel.wave_ram[0] = \h5A

\* C17: a read of 0xFF26 has the master enable in bit 7 and channel_on of
\* channel 1, 2, 3, 4 in bit 0, 1, 2, 3.
C17_AsStated ==
    /\ Bit(APU_mem_read(apu, \hFF26), 7) = 1 <=> apu.on
    /\ \A c \in 1..4 :
          Bit(APU_mem_read(apu, \hFF26), c - 1) = 1
              <=> Channels(apu)[c].channel_on

\* C18: the LFSR of a just triggered noise channel takes its first value
\* again after 127 steps in short mode and after 32767 steps in long mode,
\* and not before: step n has the first value exactly if n is a multiple of
\* the period.
C18_AsStated ==
    aobs.op \in {"trigger", "update_lfsr"} =>
        (apu.noise_channel.lfsr = 0
            <=> aobs.steps % (IF apu.noise_channel.short_lfsr
                              THEN 127 ELSE 32767) = 0)

\* C30: div_apu is incremented once for every fall of bit 12 of the divider
\* of the timer, a fall by a write to DIV among them, in the T-cycle after
\* the fall at the latest, and at no other time; a T-cycle that increments
\* it ticks the length timers exactly if the new value is a multiple of 2,
\* the sweep of channel 1 exactly if it is a multiple of 4, and the
\* envelopes exactly if it is a multiple of 8.
C30_OneIncrementPerFall ==
    /\ aobs.op = "cycle" => aobs.incs = aobs.falls
    /\ aobs.op = "write" =>
          /\ aobs.falls - aobs.incs \in {0, 1}
          /\ aobs.falls > aobs.incs => aobs.address = \hFF04
          /\ aobs.address = \hFF04 => apu.div_apu = aobs.before.div_apu
    /\ aobs.op = "cycle" =>
          LET n == apu.div_apu
              was == Channels(aobs.before)
              now == Channels(apu)
              incremented == n # aobs.before.div_apu
              length(ch) == <<ch.length_timer>>
              sweep(ch) == <<ch.sweep_timer, ch.period>>
              envelope(ch) == <<ch.envelope_timer, ch.volume>>
              ticked(unit(_), update(_), c, due) ==
                  unit(now[c]) = IF due THEN unit(update(was[c]))
                                 ELSE unit(was[c])
          IN  /\ incremented => n = (aobs.before.div_apu + 1) % 256
              /\ \A c \in 1..4 :
                    ticked(length, update_length_timer, c,
                           incremented /\ n % 2 = 0)
              /\ ticked(sweep, update_sweep, 1, incremented /\ n % 4 = 0)
              /\ \A c \in {1, 2, 4} :
                    ticked(envelope, update_envelope, c,
                           incremented /\ n % 8 = 0)

\* a write to DIV made bit 12 of the divider fall, and the T-cycle after it
\* brought div_apu from 7 to 8 and ticked the length timer, the sweep and the
\* envelope of channel 1
C30_Witness ==
    /\ aobs.op = "cycle" /\ aobs.falls = 1 /\ aobs.incs = 1
    /\ timer.div = 1
    /\ aobs.before.div_apu = 7 /\ apu.div_apu = 8
    /\ apu.square_channel_1.length_timer
          = aobs.before.square_channel_1.length_timer - 1
    /\ apu.square_channel_1.sweep_timer
          # aobs.before.square_channel_1.sweep_timer
    /\ apu.square_channel_1.envelope_timer
          # aobs.before.square_channel_1.envelope_timer

\* C31: a write to NRx4 with bit 7 set that the APU accepts leaves the
\* channel with channel_on equal to dac_on, the period equal to the 11-bit
\* initial period (its high bits those of the value written), the period
\* divider loaded from the period, the envelope timer and the sweep timer at
\* their start value 1, and the length timer at 64 (channels 1, 2 and 4) or
\* 256 (channel 3), whatever it held before.  Each channel is asked for the
\* fields it has: the wave channel has no envelope, the noise channel no
\* period.
C31_AsStated ==
    aobs.op = "write" /\ aobs.found.was_on /\ Bit(aobs.value, 7) = 1 =>
        LET square(ch) ==
                /\ ch.channel_on = ch.dac_on
                /\ ch.period = ch.initial_period
                /\ ch.initial_period \div 256 = aobs.value % 8
                /\ ch.period_div = ch.period
                /\ ch.envelope_timer = 1
                /\ ch.sweep_timer = 1
                /\ ch.length_timer = 64
            wave(ch) ==
                /\ ch.channel_on = ch.dac_on
                /\ ch.period = ch.initial_period
                /\ ch.initial_period \div 256 = aobs.value % 8
                /\ ch.period_div = ch.period
                /\ ch.length_timer = 256
            noise(ch) ==
                /\ ch.channel_on = ch.dac_on
                /\ ch.envelope_timer = 1
                /\ ch.length_timer = 64
        IN  /\ aobs.address = \hFF14 => square(apu.square_channel_1)
            /\ aobs.address = \hFF19 => square(apu.square_channel_2)
            /\ aobs.address = \hFF1E => wave(apu.wave_channel)
            /\ aobs.address = \hFF23 => noise(apu.noise_channel)

\* channel 1 was triggered again after its length timer had gone down to 63
C31_Witness ==
    /\ aobs.op = "write" /\ aobs.address = \hFF14 /\ aobs.value = \hC7
    /\ aobs.found.was_on
    /\ aobs.found.lengths[1] = 63
    /\ apu.square_channel_1.length_timer = 64
    /\ apu.square_channel_1.channel_on
    /\ apu.square_channel_1.period = \h700

\* C32: while the wave channel plays, its sample is the nibble of wave RAM
\* byte p div 2 at wave pointer p, the high nibble for even p and the low
\* nibble for odd p, shifted by the output level.
C32_AsStated ==
    LET ch == apu.wave_channel
        p == ch.wave_pointer
        byte == ch.wave_ram[p \div 2]
        nibble == IF p % 2 = 0 THEN byte \div 16 ELSE byte % 16
    IN  ch.dac_on /\ ch.channel_on =>
            Wave_get_sample(ch) = nibble \div Pow2(ch.output_level - 1)

(***************************************************************************)
(* Claims about the audio ring.                                            *)
(***************************************************************************)
\* C33: with two output channels, the values the consumer has received form
\* frames: every value at an even place of the stream (counted from 0) is a
\* left sample, and the value after it is the right sample of the same
\* sample instant.
C33_AsStated ==
    \A i \in 1..Len(aobs.consumed) :
        IF i % 2 = 1
        THEN aobs.consumed[i][2] = "left"
        ELSE /\ aobs.consumed[i][2] = "right"
             /\ aobs.consumed[i][1] = aobs.consumed[i - 1][1]

(***************************************************************************)
(* Claims about the frames of the PPU.                                     *)
(***************************************************************************)
\* C34: while the PPU is enabled lx is in 0..455 and LY in 0..153; t T-cycles
\* after it was enabled lx is t mod 456 and LY is (t div 456) mod 154, so
\* that LY advances by one every 456 T-cycles and goes round through 0..153;
\* and VBLANK is requested once in every 70224 T-cycles: in the 70224th
\* T-cycle after the request before it, and the first time no later.
C34_AsStated ==
    ppu.state # "Disabled" =>
        /\ ppu.lx \in 0..455 /\ ppu.ly \in 0..153
        /\ ppu.lx = pobs.enabled_for % 456
        /\ ppu.ly = (pobs.enabled_for \div 456) % 154
        /\ pobs.since_vblank < 70224
        /\ pobs.op = "cycle" /\ intersects(pobs.requested, VBLANK) =>
              /\ pobs.since_vblank = 0
              /\ pobs.vblanks = (pobs.enabled_for + 4104) \div 70224
        /\ pobs.vblanks = (pobs.enabled_for + 4104) \div 70224

\* the second request of VBLANK, 70224 T-cycles after the first, as LY
\* goes from 144 to 145 in the second frame
C34_Witness ==
    /\ pobs.op = "cycle" /\ intersects(pobs.requested, VBLANK)
    /\ pobs.vblanks = 2 /\ pobs.enabled_for = 66120 + 70224
    /\ pobs.before.ly = 144 /\ ppu.ly = 145 /\ ppu.lx = 0

\* C35: while the PPU is not Disabled the mode is VBlank exactly when LY is
\* in 144..153, and on lines 0..143 it is OAMScan while lx < 80, Drawing
\* while 80 <= lx < 252 and HBlank while 252 <= lx < 456.
C35_AsStated ==
    ppu.state # "Disabled" =>
        /\ ppu.mode = "VBlank" <=> ppu.ly \in 144..153
        /\ ppu.ly \in 0..143 =>
              ppu.mode = IF ppu.lx < 80 THEN "OAMScan"
                         ELSE IF ppu.lx < 252 THEN "Drawing" ELSE "HBlank"

\* C36: a write of LCDC with ENABLE set that finds the PPU Disabled leaves
\* the state Starting and the mode OAMScan; while the state is Starting no
\* pixel of either framebuffer is written (both stay as the turn off left
\* them, of colour 0); and the PPU that was turned on is Starting for the
\* 70223 T-cycles before LY wraps from 153 to 0 and Active from the T-cycle
\* of the wrap on.
C36_AsStated ==
    /\ pobs.op = "write" /\ intersects(pobs.value, LCDC_ENABLE)
            /\ pobs.before.state = "Disabled" =>
          ppu.state = "Starting" /\ ppu.mode = "OAMScan"
    /\ ppu.state = "Starting" =>
          /\ pobs.restarted
          /\ ppu.display = [cur |-> {}, next |-> {}]
    /\ pobs.restarted /\ ppu.state # "Disabled" =>
          /\ ppu.state = "Starting" <=> pobs.enabled_for < 70224
          /\ pobs.enabled_for = 70224 =>
                /\ pobs.before.state = "Starting" /\ ppu.state = "Active"
                /\ pobs.before.ly = 153 /\ ppu.ly = 0

\* the PPU that was turned on in the first frame is in line 100 of its
\* first frame from then, Starting, with both framebuffers empty, and the
\* window counter shows that the lines before were gone through
C36_Witness ==
    /\ pobs.restarted /\ ppu.state = "Starting"
    /\ ppu.ly = 100 /\ ppu.lx = 1
    /\ ppu.win_line > 0
    /\ ppu.display = [cur |-> {}, next |-> {}]

\* C38: win_line is at most 144 and at most the number of visible scanlines
\* drawn so far in the frame (LY on the lines 0..143), and it is 0 from the
\* T-cycle in which LY reaches 144 to the end of the frame, whatever writes
\* turned the LCD off and on before; a T-cycle raises it by at most one, and
\* only when it draws a visible scanline.
C38_AsStated ==
    /\ ppu.win_line <= 144
    /\ ppu.state # "Disabled" =>
          ppu.win_line <= (IF ppu.ly <= 143 THEN ppu.ly ELSE 0)
    /\ pobs.op = "cycle" /\ ppu.win_line > pobs.before.win_line =>
          /\ ppu.win_line = pobs.before.win_line + 1
          /\ pobs.before.ly \in 0..143 /\ ppu.ly = pobs.before.ly + 1

(***************************************************************************)
(* Claims about the T-cycle of the system.                                 *)
(***************************************************************************)
\* C40: after every T-cycle the APU has seen the divider as the timer's step
\* of that T-cycle left it: its record of bit 12 is that of the new divider,
\* and div_apu went up in the T-cycle in which the step made bit 12 fall,
\* and in no other; and IF holds what it held before together with every
\* request the PPU and the timer raised in the T-cycle, and nothing else, so
\* that the next interrupt check finds each of them pending.
C40_AsStated ==
    pobs.op = "cycle" =>
        LET raised == BitOr(ppu.interrupt_request,
                            IF timer.request_interrupt THEN TIMER ELSE 0)
            fell == Bit(pobs.before.div, 12) = 1 /\ Bit(timer.div, 12) = 0
        IN  /\ timer.div = (pobs.before.div + 1) % 65536
            /\ apu.last_div_bit <=> Bit(timer.div, 12) = 1
            /\ apu.div_apu = IF fell THEN (pobs.before.div_apu + 1) % 256
                             ELSE pobs.before.div_apu
            /\ istate.iflag = BitOr(pobs.before.iflag, raised)
            /\ BitAnd(BitAnd(istate.ie, istate.iflag), raised) = raised

\* the PPU requested VBLANK and LCD and the timer TIMER in one T-cycle, with
\* JOYPAD in IF from before: all four are in IF, and the check serves VBLANK
C40_Witness ==
    /\ pobs.op = "cycle"
    /\ ppu.interrupt_request = BitOr(VBLANK, LCD)
    /\ timer.request_interrupt
    /\ pobs.before.iflag = JOYPAD
    /\ istate.iflag = BitOr(BitOr(BitOr(VBLANK, LCD), TIMER), JOYPAD)
    /\ pending_interrupt(BitAnd(istate.ie, istate.iflag)) = VBLANK

====
